---------------------------- MODULE Spec2Model ----------------------------
(***************************************************************************)
(* Model of rechess.club's backend: the chess rule engine of               *)
(* backend/chess_game.py (class ChessGame) and the per-match session of    *)
(* backend/main.py (class Room, class ConnectionManager and the            *)
(* websocket_endpoint coroutine).                                          *)
(*                                                                         *)
(* Squares are pairs <<row, col>> as in Position(row, col); row 0 is rank  *)
(* 1 and col 0 is file a.  A dict (ChessGame.board) is a record            *)
(* [at, keys]: `at' gives the value stored under a key and `keys' is the   *)
(* insertion order of the keys, which Python dicts keep and which          *)
(* is_in_check depends on when it looks for "the" king.                    *)
(***************************************************************************)
EXTENDS Integers, Sequences, FiniteSets, TLC

VARIABLES
    board,              \* ChessGame.board
    current_turn,       \* ChessGame.current_turn
    move_history,       \* ChessGame.move_history
    en_passant_target,  \* ChessGame.en_passant_target
    ret,                \* <<value>> returned by the last direct make_move call,
                        \* <<>> before the first one
    book,               \* which set of move submissions drives this run
    premoves,           \* Room.premoves, per player
    game_ended,         \* Room.game_ended
    time_remaining,     \* Room.time_remaining, per color, in 1/100 s
    last_move_time,     \* Room.last_move_time, in 1/100 s
    time_update_task,   \* Room.time_update_task: index into tasks
    tasks,              \* every _sleep_until_timeout task created so far:
                        \* "sleeping", "notify" (awaiting the first send of
                        \* its result) or "finished" (returned or cancelled)
    now,                \* time.time(), in 1/100 s
    ticks,              \* how often the model has let time pass
    hpc,                \* where each player's websocket_endpoint coroutine stands
    hres,               \* the game_result local of each coroutine
    sent,               \* the game_over results delivered to each player
    rooms,              \* the room is in ConnectionManager.rooms
    websocket_to_room,  \* ConnectionManager.websocket_to_room, per player
    queue,              \* ConnectionManager.queue
    client_state,       \* websocket.client_state.value, per connection
    pending_names,      \* the connections in ConnectionManager.pending_names
    uuids               \* how many room ids uuid.uuid4() has handed out

gameVars == <<board, current_turn, move_history, en_passant_target>>

roomVars == <<premoves, game_ended, time_remaining, last_move_time, time_update_task, tasks>>

lobbyVars == <<queue, client_state, pending_names, uuids>>

sessionVars == <<roomVars, now, ticks, hpc, hres, sent, rooms, websocket_to_room, lobbyVars>>

-----------------------------------------------------------------------------
(* Enumerations and value types of chess_game.py                           *)

PieceType == {"pawn", "rook", "knight", "bishop", "queen", "king"}

Color == {"white", "black"}

opposite(color) == IF color = "white" THEN "black" ELSE "white"

\* Python's None, for Optional[Position] and Optional[PieceType]
None == "None"

\* Python's None for Optional[Piece]; a record so that it compares with pieces
NoPiece == [piece_type |-> "None", color |-> "None", has_moved |-> FALSE]

Piece(piece_type, color, has_moved) ==
    [piece_type |-> piece_type, color |-> color, has_moved |-> has_moved]

Position(row, col) == <<row, col>>

is_valid(pos) == 0 <= pos[1] /\ pos[1] < 8 /\ 0 <= pos[2] /\ pos[2] < 8

offset(pos, row_delta, col_delta) == <<pos[1] + row_delta, pos[2] + col_delta>>

Abs(x) == IF x < 0 THEN -x ELSE x

SeqContains(s, x) == \E i \in DOMAIN s : s[i] = x

\* Strings are sequences of code points: ord('a') = 97, ord('0') = 48.

\* str(n) for n >= 0, in decimal
RECURSIVE DecimalDigits(_)
DecimalDigits(n) ==
    IF n < 10 THEN <<48 + n>> ELSE Append(DecimalDigits(n \div 10), 48 + (n % 10))

\* int(ch) for a one-character string ch that is a decimal digit
IntOfDigit(ch) == ch - 48

\* to_algebraic with the row as it is
ToAlgebraicZeroBasedRank(pos) == <<97 + pos[2]>> \o DecimalDigits(pos[1])

\* f"{chr(ord('a') + self.col)}{self.row + 1}"
to_algebraic(pos) == <<97 + pos[2]>> \o DecimalDigits(pos[1] + 1)

\* Position.from_algebraic: the first two characters are read
from_algebraic(notation) ==
    LET col == notation[1] - 97
        row == IntOfDigit(notation[2]) - 1
    IN  Position(row, col)

\* name = value: the value is worked out once, when it is assigned, and Rest
\* goes on with it
Assign(value, Rest(_)) == CHOOSE result \in {Rest(name) : name \in {value}} : TRUE

-----------------------------------------------------------------------------
(* The board dict                                                          *)

\* self.board.get(pos)
get_piece(b, pos) == IF is_valid(pos) THEN b.at[pos[1]][pos[2]] ELSE NoPiece

\* self.board[pos] = piece: an existing key keeps its place in the order
DictSet(b, pos, piece) ==
    [at   |-> [b.at EXCEPT ![pos[1]][pos[2]] = piece],
     keys |-> IF b.at[pos[1]][pos[2]] # NoPiece THEN b.keys
              ELSE Append(b.keys, pos)]

\* del self.board[pos]
DictDel(b, pos) ==
    [at   |-> [b.at EXCEPT ![pos[1]][pos[2]] = NoPiece],
     keys |-> SelectSeq(b.keys, LAMBDA k : k # pos)]

back_rank_order ==
    <<"rook", "knight", "bishop", "queen", "king", "bishop", "knight", "rook">>

\* the key order _initialize_board produces: the pawns file by file, white
\* then black, then the back ranks file by file, white then black
InitialKeys ==
    [i \in 1..16 |-> <<IF i % 2 = 1 THEN 1 ELSE 6, (i - 1) \div 2>>] \o
    [i \in 1..16 |-> <<IF i % 2 = 1 THEN 0 ELSE 7, (i - 1) \div 2>>]

_initialize_board ==
    [at   |-> [row \in 0..7 |-> [col \in 0..7 |->
                 CASE row = 1 -> Piece("pawn", "white", FALSE)
                   [] row = 6 -> Piece("pawn", "black", FALSE)
                   [] row = 0 -> Piece(back_rank_order[col + 1], "white", FALSE)
                   [] row = 7 -> Piece(back_rank_order[col + 1], "black", FALSE)
                   [] OTHER   -> NoPiece]],
     keys |-> InitialKeys]

-----------------------------------------------------------------------------
(* Movement rules (pseudo-legal candidates, in the order the code lists    *)
(* them)                                                                   *)

PawnDirection(color) == IF color = "white" THEN 1 ELSE -1

\* _get_pawn_moves without the test of has_moved: a double step from any
\* rank
PawnMovesDoubleAnywhere(b, ep, from_pos, piece) ==
    LET direction == PawnDirection(piece.color)
        forward_pos == offset(from_pos, direction, 0)
        double_forward == offset(from_pos, 2 * direction, 0)
        forward_ok == is_valid(forward_pos) /\ get_piece(b, forward_pos) = NoPiece
        Capture(col_offset) ==
            LET capture_pos == offset(from_pos, direction, col_offset)
                target_piece == get_piece(b, capture_pos)
            IN  IF ~is_valid(capture_pos) THEN <<>>
                ELSE (IF target_piece # NoPiece /\ target_piece.color # piece.color
                      THEN <<capture_pos>> ELSE <<>>) \o
                     (IF capture_pos = ep THEN <<capture_pos>> ELSE <<>>)
    IN  (IF forward_ok THEN <<forward_pos>> ELSE <<>>) \o
        (IF forward_ok /\ is_valid(double_forward)
            /\ get_piece(b, double_forward) = NoPiece
         THEN <<double_forward>> ELSE <<>>) \o
        Capture(-1) \o Capture(1)

_get_pawn_moves(b, ep, from_pos, piece) ==
    LET direction == PawnDirection(piece.color)
        forward_pos == offset(from_pos, direction, 0)
        double_forward == offset(from_pos, 2 * direction, 0)
        forward_ok == is_valid(forward_pos) /\ get_piece(b, forward_pos) = NoPiece
        Capture(col_offset) ==
            LET capture_pos == offset(from_pos, direction, col_offset)
                target_piece == get_piece(b, capture_pos)
            IN  IF ~is_valid(capture_pos) THEN <<>>
                ELSE (IF target_piece # NoPiece /\ target_piece.color # piece.color
                      THEN <<capture_pos>> ELSE <<>>) \o
                     (IF capture_pos = ep THEN <<capture_pos>> ELSE <<>>)
    IN  (IF forward_ok THEN <<forward_pos>> ELSE <<>>) \o
        (IF forward_ok /\ ~piece.has_moved /\ is_valid(double_forward)
            /\ get_piece(b, double_forward) = NoPiece
         THEN <<double_forward>> ELSE <<>>) \o
        Capture(-1) \o Capture(1)

RECURSIVE SlideRay(_, _, _, _, _)
\* the while loop of _get_sliding_moves for one direction
SlideRay(b, current_pos, piece, row_delta, col_delta) ==
    LET next_pos == offset(current_pos, row_delta, col_delta)
        target_piece == get_piece(b, next_pos)
    IN  IF ~is_valid(next_pos) THEN <<>>
        ELSE IF target_piece = NoPiece
             THEN <<next_pos>> \o SlideRay(b, next_pos, piece, row_delta, col_delta)
        ELSE IF target_piece.color # piece.color THEN <<next_pos>>
        ELSE <<>>

RECURSIVE SlideFrom(_, _, _, _, _)
SlideFrom(b, from_pos, piece, directions, i) ==
    IF i > Len(directions) THEN <<>>
    ELSE SlideRay(b, from_pos, piece, directions[i][1], directions[i][2]) \o
         SlideFrom(b, from_pos, piece, directions, i + 1)

\* _get_sliding_moves going on past a piece of the other color
RECURSIVE SlideRayPastEnemy(_, _, _, _, _)
SlideRayPastEnemy(b, current_pos, piece, row_delta, col_delta) ==
    LET next_pos == offset(current_pos, row_delta, col_delta)
        target_piece == get_piece(b, next_pos)
    IN  IF ~is_valid(next_pos) THEN <<>>
        ELSE IF target_piece = NoPiece \/ target_piece.color # piece.color
             THEN <<next_pos>> \o SlideRayPastEnemy(b, next_pos, piece, row_delta, col_delta)
        ELSE <<>>

RECURSIVE SlideFromPastEnemy(_, _, _, _, _)
SlideFromPastEnemy(b, from_pos, piece, directions, i) ==
    IF i > Len(directions) THEN <<>>
    ELSE SlideRayPastEnemy(b, from_pos, piece, directions[i][1], directions[i][2]) \o
         SlideFromPastEnemy(b, from_pos, piece, directions, i + 1)

SlidingMovesPastEnemy(b, from_pos, piece, directions) ==
    SlideFromPastEnemy(b, from_pos, piece, directions, 1)

_get_sliding_moves(b, from_pos, piece, directions) ==
    SlideFrom(b, from_pos, piece, directions, 1)

rook_directions == <<<<0, 1>>, <<0, -1>>, <<1, 0>>, <<-1, 0>>>>

bishop_directions == <<<<1, 1>>, <<1, -1>>, <<-1, 1>>, <<-1, -1>>>>

_get_rook_moves(b, from_pos, piece) ==
    _get_sliding_moves(b, from_pos, piece, rook_directions)

_get_bishop_moves(b, from_pos, piece) ==
    _get_sliding_moves(b, from_pos, piece, bishop_directions)

_get_queen_moves(b, from_pos, piece) ==
    _get_sliding_moves(b, from_pos, piece, rook_directions \o bishop_directions)

knight_offsets ==
    <<<<2, 1>>, <<2, -1>>, <<-2, 1>>, <<-2, -1>>,
      <<1, 2>>, <<1, -2>>, <<-1, 2>>, <<-1, -2>>>>

king_offsets ==
    <<<<-1, -1>>, <<-1, 0>>, <<-1, 1>>, <<0, -1>>,
      <<0, 1>>, <<1, -1>>, <<1, 0>>, <<1, 1>>>>

\* the offset loops of _get_knight_moves and of the first half of
\* _get_king_moves: on the board and not on a piece of the same color
StepMoves(b, from_pos, piece, offsets) ==
    LET to(i) == offset(from_pos, offsets[i][1], offsets[i][2])
        cand == [i \in 1..Len(offsets) |-> to(i)]
    IN  SelectSeq(cand, LAMBDA to_pos :
            /\ is_valid(to_pos)
            /\ \/ get_piece(b, to_pos) = NoPiece
               \/ get_piece(b, to_pos).color # piece.color)

_get_knight_moves(b, from_pos, piece) ==
    StepMoves(b, from_pos, piece, knight_offsets)

_get_pawn_attacking_squares(from_pos, piece) ==
    LET direction == PawnDirection(piece.color)
        cand == <<offset(from_pos, direction, -1), offset(from_pos, direction, 1)>>
    IN  SelectSeq(cand, is_valid)

_get_king_attacking_squares(from_pos, piece) ==
    LET cand == [i \in 1..8 |-> offset(from_pos, king_offsets[i][1], king_offsets[i][2])]
    IN  SelectSeq(cand, is_valid)

-----------------------------------------------------------------------------
(* Attack oracle                                                           *)

AttackingMoves(b, piece_pos, piece) ==
    CASE piece.piece_type = "pawn"   -> _get_pawn_attacking_squares(piece_pos, piece)
      [] piece.piece_type = "knight" -> _get_knight_moves(b, piece_pos, piece)
      [] piece.piece_type = "bishop" -> _get_bishop_moves(b, piece_pos, piece)
      [] piece.piece_type = "rook"   -> _get_rook_moves(b, piece_pos, piece)
      [] piece.piece_type = "queen"  -> _get_queen_moves(b, piece_pos, piece)
      [] piece.piece_type = "king"   -> _get_king_attacking_squares(piece_pos, piece)
      [] OTHER -> <<>>

_is_position_under_attack(b, pos, by_color) ==
    LET opponent_color == opposite(by_color)
    IN  \E row \in 0..7, col \in 0..7 :
            /\ b.at[row][col].color = opponent_color
            /\ SeqContains(AttackingMoves(b, <<row, col>>, b.at[row][col]), pos)

\* the first king of that color in the dict's order, or None
KingPos(b, color) ==
    LET IsKing(k) == b.at[k[1]][k[2]].piece_type = "king"
                     /\ b.at[k[1]][k[2]].color = color
        kings == SelectSeq(b.keys, IsKing)
    IN  IF kings = <<>> THEN None ELSE kings[1]

is_in_check(b, color) ==
    LET king_pos == KingPos(b, color)
    IN  IF king_pos = None THEN FALSE
        ELSE _is_position_under_attack(b, king_pos, color)

-----------------------------------------------------------------------------
(* King moves with castling                                                *)

\* castling without the test of the square the king passes over
CastleSideTransitUntested(b, from_pos, piece, rook_col, between, step) ==
    LET rook == get_piece(b, Position(from_pos[1], rook_col))
    IN  IF /\ rook # NoPiece
           /\ rook.piece_type = "rook"
           /\ ~rook.has_moved
           /\ \A col \in between : get_piece(b, Position(from_pos[1], col)) = NoPiece
           /\ ~_is_position_under_attack(b, offset(from_pos, 0, 2 * step), piece.color)
        THEN <<offset(from_pos, 0, 2 * step)>>
        ELSE <<>>

CastleSide(b, from_pos, piece, rook_col, between, step) ==
    LET rook == get_piece(b, Position(from_pos[1], rook_col))
    IN  IF /\ rook # NoPiece
           /\ rook.piece_type = "rook"
           /\ ~rook.has_moved
           /\ \A col \in between : get_piece(b, Position(from_pos[1], col)) = NoPiece
           /\ ~_is_position_under_attack(b, offset(from_pos, 0, step), piece.color)
           /\ ~_is_position_under_attack(b, offset(from_pos, 0, 2 * step), piece.color)
        THEN <<offset(from_pos, 0, 2 * step)>>
        ELSE <<>>

\* _get_king_moves without the test of the king's has_moved
KingMovesCastlingAfterMove(b, from_pos, piece) ==
    StepMoves(b, from_pos, piece, king_offsets) \o
    (IF ~is_in_check(b, piece.color)
     THEN CastleSide(b, from_pos, piece, 7, (from_pos[2] + 1)..6, 1) \o
          CastleSide(b, from_pos, piece, 0, 1..(from_pos[2] - 1), -1)
     ELSE <<>>)

_get_king_moves(b, from_pos, piece) ==
    StepMoves(b, from_pos, piece, king_offsets) \o
    (IF ~piece.has_moved /\ ~is_in_check(b, piece.color)
     THEN CastleSide(b, from_pos, piece, 7, (from_pos[2] + 1)..6, 1) \o
          CastleSide(b, from_pos, piece, 0, 1..(from_pos[2] - 1), -1)
     ELSE <<>>)

-----------------------------------------------------------------------------
(* Move execution and the legality filter                                  *)

IsEnPassant(piece, to_pos, ep) ==
    piece.piece_type = "pawn" /\ to_pos = ep /\ ep # None

\* without the removal of the pawn captured en passant
ExecuteMoveKeepingPassedPawn(b, ep, from_pos, to_pos) ==
    LET piece == get_piece(b, from_pos)
        col_diff == to_pos[2] - from_pos[2]
        rook_from == Position(from_pos[1], IF col_diff > 0 THEN 7 ELSE 0)
        rook_to == Position(from_pos[1], IF col_diff > 0 THEN 5 ELSE 3)
        rook == get_piece(b, rook_from)
        b2 == IF piece.piece_type = "king" /\ Abs(col_diff) = 2 /\ rook # NoPiece
              THEN DictDel(DictSet(b, rook_to, rook), rook_from) ELSE b
    IN  IF piece = NoPiece THEN b
        ELSE DictDel(DictSet(b2, to_pos, piece), from_pos)

\* the castling branch without "del self.board[rook_from]"
ExecuteMoveKeepingCornerRook(b, ep, from_pos, to_pos) ==
    LET piece == get_piece(b, from_pos)
        captured_pawn_pos == offset(to_pos, -PawnDirection(piece.color), 0)
        b1 == IF IsEnPassant(piece, to_pos, ep)
                 /\ get_piece(b, captured_pawn_pos) # NoPiece
              THEN DictDel(b, captured_pawn_pos) ELSE b
        col_diff == to_pos[2] - from_pos[2]
        rook_from == Position(from_pos[1], IF col_diff > 0 THEN 7 ELSE 0)
        rook_to == Position(from_pos[1], IF col_diff > 0 THEN 5 ELSE 3)
        rook == get_piece(b1, rook_from)
        b2 == IF piece.piece_type = "king" /\ Abs(col_diff) = 2 /\ rook # NoPiece
              THEN DictSet(b1, rook_to, rook) ELSE b1
    IN  IF piece = NoPiece THEN b
        ELSE DictDel(DictSet(b2, to_pos, piece), from_pos)

_execute_move_on_board(b, ep, from_pos, to_pos) ==
    LET piece == get_piece(b, from_pos)
        captured_pawn_pos == offset(to_pos, -PawnDirection(piece.color), 0)
        b1 == IF IsEnPassant(piece, to_pos, ep)
                 /\ get_piece(b, captured_pawn_pos) # NoPiece
              THEN DictDel(b, captured_pawn_pos) ELSE b
        col_diff == to_pos[2] - from_pos[2]
        rook_from == Position(from_pos[1], IF col_diff > 0 THEN 7 ELSE 0)
        rook_to == Position(from_pos[1], IF col_diff > 0 THEN 5 ELSE 3)
        rook == get_piece(b1, rook_from)
        b2 == IF piece.piece_type = "king" /\ Abs(col_diff) = 2 /\ rook # NoPiece
              THEN DictDel(DictSet(b1, rook_to, rook), rook_from) ELSE b1
    IN  IF piece = NoPiece THEN b
        ELSE DictDel(DictSet(b2, to_pos, piece), from_pos)

\* _is_legal_move without the restore: the game keeps the trial board
IsLegalMoveNoRestore(b, ep, from_pos, to_pos) ==
    Assign(_execute_move_on_board(b, ep, from_pos, to_pos), LAMBDA trial :
        LET piece == get_piece(trial, to_pos)
        IN  [is_legal |-> piece # NoPiece /\ ~is_in_check(trial, piece.color),
             board |-> trial,
             en_passant_target |-> ep])

\* Returns the verdict together with the board and en passant target the
\* game holds when the method returns (the restored deep copy).
_is_legal_move(b, ep, from_pos, to_pos) ==
    LET original_board == b
        original_en_passant == ep
    IN  Assign(_execute_move_on_board(b, ep, from_pos, to_pos), LAMBDA trial :
            LET piece == get_piece(trial, to_pos)
            IN  [is_legal |-> piece # NoPiece /\ ~is_in_check(trial, piece.color),
                 board |-> original_board,
                 en_passant_target |-> original_en_passant])

PseudoLegalMoves(b, ep, from_pos, piece) ==
    CASE piece.piece_type = "pawn"   -> _get_pawn_moves(b, ep, from_pos, piece)
      [] piece.piece_type = "rook"   -> _get_rook_moves(b, from_pos, piece)
      [] piece.piece_type = "knight" -> _get_knight_moves(b, from_pos, piece)
      [] piece.piece_type = "bishop" -> _get_bishop_moves(b, from_pos, piece)
      [] piece.piece_type = "queen"  -> _get_queen_moves(b, from_pos, piece)
      [] piece.piece_type = "king"   -> _get_king_moves(b, from_pos, piece)
      [] OTHER -> <<>>

RECURSIVE FilterLegal(_, _, _, _, _)
\* the loop of get_possible_moves over the candidates from index i on; each
\* call of _is_legal_move hands the board it leaves behind to the next one
FilterLegal(b, ep, from_pos, possible_moves, i) ==
    IF i > Len(possible_moves)
    THEN [moves |-> <<>>, board |-> b, en_passant_target |-> ep]
    ELSE Assign(_is_legal_move(b, ep, from_pos, possible_moves[i]), LAMBDA r :
         Assign(FilterLegal(r.board, r.en_passant_target, from_pos,
                            possible_moves, i + 1), LAMBDA rest :
             [moves |-> (IF r.is_legal THEN <<possible_moves[i]>> ELSE <<>>)
                        \o rest.moves,
              board |-> rest.board,
              en_passant_target |-> rest.en_passant_target]))

\* Returns the list of legal destinations together with the board and en
\* passant target the game holds afterwards.
get_possible_moves(b, turn, ep, from_pos) ==
    LET piece == get_piece(b, from_pos)
    IN  IF piece = NoPiece \/ piece.color # turn
        THEN [moves |-> <<>>, board |-> b, en_passant_target |-> ep]
        ELSE FilterLegal(b, ep, from_pos, PseudoLegalMoves(b, ep, from_pos, piece), 1)

Move(from_pos, to_pos, piece, captured_piece, is_castling, is_en_passant, promotion_piece_type) ==
    [from_pos |-> from_pos, to_pos |-> to_pos, piece |-> piece,
     captured_piece |-> captured_piece, is_castling |-> is_castling,
     is_en_passant |-> is_en_passant,
     promotion_piece_type |-> promotion_piece_type]

\* A game value: the four fields of a ChessGame
Game(b, turn, history, ep) ==
    [board |-> b, current_turn |-> turn, move_history |-> history,
     en_passant_target |-> ep]

\* the target without the test for a double step: set by every pawn move
EnPassantTargetAnyPawnMove(piece, from_pos, to_pos) ==
    IF piece.piece_type = "pawn"
    THEN offset(from_pos, PawnDirection(piece.color), 0)
    ELSE None

\* the en passant target make_move leaves behind: None, unless a pawn made
\* a double step
EnPassantTargetAfter(piece, from_pos, to_pos) ==
    IF piece.piece_type = "pawn" /\ Abs(to_pos[1] - from_pos[1]) = 2
    THEN offset(from_pos, PawnDirection(piece.color), 0)
    ELSE None

\* the promotion without the choice: always a queen
PromotedPieceAlwaysQueen(piece, promotion_piece_type) ==
    Piece("queen", piece.color, TRUE)

\* the piece make_move puts on the promotion square
PromotedPiece(piece, promotion_piece_type) ==
    Piece(IF promotion_piece_type = None THEN "queen" ELSE promotion_piece_type,
          piece.color, TRUE)

\* the end of make_move without the switch of turns
RecordMoveNoSwitch(g, b, move, ep) ==
    Game(b, g.current_turn, Append(g.move_history, move), ep)

\* the end of make_move: the move is recorded and the turn switches
RecordMove(g, b, move, ep) ==
    Game(b, opposite(g.current_turn), Append(g.move_history, move), ep)

\* make_move on game g; returns [ok, game]: the return value and the game
\* afterwards
make_move(g, from_pos, to_pos, promotion_piece_type) ==
    Assign(get_possible_moves(g.board, g.current_turn, g.en_passant_target, from_pos),
           LAMBDA pm :
    LET piece == get_piece(g.board, from_pos)
        b0 == pm.board
        ep0 == pm.en_passant_target
        is_castling == piece.piece_type = "king" /\ Abs(to_pos[2] - from_pos[2]) = 2
        is_en_passant == IsEnPassant(piece, to_pos, ep0)
        direction == PawnDirection(piece.color)
        captured_piece == IF is_en_passant
                          THEN get_piece(b0, offset(to_pos, -direction, 0))
                          ELSE get_piece(b0, to_pos)
        move == Move(from_pos, to_pos, piece, captured_piece, is_castling,
                     is_en_passant, promotion_piece_type)
        b1 == _execute_move_on_board(b0, ep0, from_pos, to_pos)
        promotion_row == IF piece.color = "white" THEN 7 ELSE 0
        b2 == IF piece.piece_type = "pawn" /\ to_pos[1] = promotion_row
              THEN DictSet(b1, to_pos, PromotedPiece(piece, promotion_piece_type))
              ELSE b1
        ep1 == EnPassantTargetAfter(piece, from_pos, to_pos)
        moved_piece == get_piece(b2, to_pos)
        b3 == IF moved_piece # NoPiece
              THEN [b2 EXCEPT !.at[to_pos[1]][to_pos[2]].has_moved = TRUE]
              ELSE b2
    IN  IF piece = NoPiece \/ piece.color # g.current_turn
        THEN [ok |-> FALSE, game |-> g]
        ELSE IF ~SeqContains(pm.moves, to_pos)
        THEN [ok |-> FALSE,
              game |-> Game(b0, g.current_turn, g.move_history, ep0)]
        ELSE [ok |-> TRUE, game |-> RecordMove(g, b3, move, ep1)])

\* the game the variables hold
CurrentGame == Game(board, current_turn, move_history, en_passant_target)

SetGame(g) ==
    /\ board' = g.board
    /\ current_turn' = g.current_turn
    /\ move_history' = g.move_history
    /\ en_passant_target' = g.en_passant_target

-----------------------------------------------------------------------------
(* Terminal-state detection                                                *)

\* the loop shared by is_checkmate and is_stalemate: some piece of the side
\* to move has a legal destination
AnyLegalMove(b, turn, ep) ==
    \E row \in 0..7, col \in 0..7 :
        /\ b.at[row][col].color = turn
        /\ Len(get_possible_moves(b, turn, ep, <<row, col>>).moves) > 0

\* is_checkmate looking at the king's destinations only
IsCheckmateKingOnly(b, turn, ep) ==
    IF ~is_in_check(b, turn) THEN FALSE
    ELSE get_possible_moves(b, turn, ep, KingPos(b, turn)).moves = <<>>

is_checkmate(b, turn, ep) ==
    IF ~is_in_check(b, turn) THEN FALSE ELSE ~AnyLegalMove(b, turn, ep)

\* is_stalemate without its test for check
IsStalemateNoCheckTest(b, turn, ep) == ~AnyLegalMove(b, turn, ep)

is_stalemate(b, turn, ep) ==
    IF is_in_check(b, turn) THEN FALSE ELSE ~AnyLegalMove(b, turn, ep)

is_game_over(b, turn, ep) == is_checkmate(b, turn, ep) \/ is_stalemate(b, turn, ep)

get_game_result(b, turn, ep) ==
    IF is_checkmate(b, turn, ep) THEN <<opposite(turn), "wins by checkmate">>
    ELSE IF is_stalemate(b, turn, ep) THEN <<"Draw by stalemate">>
    ELSE <<None>>

-----------------------------------------------------------------------------
(* The queries as operations on the game: each returns its value together  *)
(* with the board and en passant target the game holds afterwards          *)

QueryResult(value, b, ep) ==
    [value |-> value, board |-> b, en_passant_target |-> ep]

RECURSIVE ScanForLegalMove(_, _, _, _, _)
\* the loop of is_checkmate and is_stalemate over list(self.board.items()),
\* the snapshot taken before the loop, from index i on; it returns at the
\* first piece of the side to move that has a legal move
ScanForLegalMove(snapshot, b, turn, ep, i) ==
    IF i > Len(snapshot.keys)
    THEN [found |-> FALSE, board |-> b, en_passant_target |-> ep]
    ELSE IF get_piece(snapshot, snapshot.keys[i]).color # turn
    THEN ScanForLegalMove(snapshot, b, turn, ep, i + 1)
    ELSE Assign(get_possible_moves(b, turn, ep, snapshot.keys[i]), LAMBDA pm :
             IF Len(pm.moves) > 0
             THEN [found |-> TRUE, board |-> pm.board,
                   en_passant_target |-> pm.en_passant_target]
             ELSE ScanForLegalMove(snapshot, pm.board, turn,
                                   pm.en_passant_target, i + 1))

RunGetPossibleMoves(b, turn, ep, from_pos) ==
    Assign(get_possible_moves(b, turn, ep, from_pos), LAMBDA pm :
        QueryResult(pm.moves, pm.board, pm.en_passant_target))

RunIsInCheck(b, ep, color) == QueryResult(is_in_check(b, color), b, ep)

RunIsCheckmate(b, turn, ep) ==
    IF ~is_in_check(b, turn) THEN QueryResult(FALSE, b, ep)
    ELSE Assign(ScanForLegalMove(b, b, turn, ep, 1), LAMBDA r :
             QueryResult(~r.found, r.board, r.en_passant_target))

RunIsStalemate(b, turn, ep) ==
    IF is_in_check(b, turn) THEN QueryResult(FALSE, b, ep)
    ELSE Assign(ScanForLegalMove(b, b, turn, ep, 1), LAMBDA r :
             QueryResult(~r.found, r.board, r.en_passant_target))

RunGetGameResult(b, turn, ep) ==
    Assign(RunIsCheckmate(b, turn, ep), LAMBDA mate :
        IF mate.value
        THEN QueryResult(<<opposite(turn), "wins by checkmate">>,
                         mate.board, mate.en_passant_target)
        ELSE Assign(RunIsStalemate(mate.board, turn, mate.en_passant_target),
                    LAMBDA stale :
                 QueryResult(IF stale.value THEN <<"Draw by stalemate">> ELSE <<None>>,
                             stale.board, stale.en_passant_target)))

-----------------------------------------------------------------------------
(* Room (main.py): players, clock and alarm                                *)

\* in 1/100 s
STARTING_TIME_SECONDS == 18000

\* in 1/100 s
INCREMENT_SECONDS == 300

\* the penalty subtract_time_for_move charges for a premove, in 1/100 s
PremovePenalty == 10

Players == {"player1", "player2"}

get_player_color(websocket) == IF websocket = "player1" THEN "white" ELSE "black"

Opponent(websocket) == IF websocket = "player1" THEN "player2" ELSE "player1"

\* None as the value of last_move_time
NoTime == -1

\* None as the value of time_update_task
NoTask == 0

NoPremove == [from |-> <<-1, -1>>, to |-> <<-1, -1>>, promotion |-> None]

Max(a, b) == IF a >= b THEN a ELSE b

\* round(x, 1) on a time in 1/100 s, for x >= 0; a tie goes to the even tenth
RoundTenthNat(x) ==
    LET r == x % 10
        down == x - r
    IN  IF r < 5 THEN down
        ELSE IF r > 5 THEN down + 10
        ELSE IF (down \div 10) % 2 = 0 THEN down ELSE down + 10

\* round(x, 1) on a time in 1/100 s
RoundTenth(x) == IF x < 0 THEN -RoundTenthNat(-x) ELSE RoundTenthNat(x)

\* is_valid_premove without the test of the piece's color
IsValidPremoveAnyColor(b, from_pos, to_pos, player_color) ==
    LET piece == get_piece(b, from_pos)
    IN  IF piece = NoPiece THEN FALSE
        ELSE IF ~is_valid(from_pos) \/ ~is_valid(to_pos) THEN FALSE
        ELSE TRUE

is_valid_premove(b, from_pos, to_pos, player_color) ==
    LET piece == get_piece(b, from_pos)
    IN  IF piece = NoPiece THEN FALSE
        ELSE IF piece.color # player_color THEN FALSE
        ELSE IF ~is_valid(from_pos) \/ ~is_valid(to_pos) THEN FALSE
        ELSE TRUE

\* task.cancel(): a task that has not finished ends with CancelledError,
\* wherever it is waiting, and _sleep_until_timeout swallows the exception;
\* a finished task is left alone
CancelTask(ts, t) ==
    IF t = NoTask THEN ts
    ELSE IF ts[t].state \in {"sleeping", "notify"}
         THEN [ts EXCEPT ![t].state = "finished"]
         ELSE ts

\* start_time_tracking without the cancellation of the previous task
StartTimeTrackingNoCancel(ts, t, remaining, turn, time) ==
    [last_move_time |-> time,
     tasks |-> Append(ts, [state |-> "sleeping", color |-> turn,
                           wake |-> time + remaining[turn]]),
     time_update_task |-> Len(ts) + 1]

\* start_time_tracking sleeping for the starting time instead of the time
\* the side to move has left
StartTimeTrackingFullTime(ts, t, remaining, turn, time) ==
    [last_move_time |-> time,
     tasks |-> Append(CancelTask(ts, t),
                      [state |-> "sleeping", color |-> turn,
                       wake |-> time + STARTING_TIME_SECONDS]),
     time_update_task |-> Len(ts) + 1]

\* start_time_tracking at time `time' with `turn' to move; returns the
\* fields of the room it writes
start_time_tracking(ts, t, remaining, turn, time) ==
    [last_move_time |-> time,
     tasks |-> Append(CancelTask(ts, t),
                      [state |-> "sleeping", color |-> turn,
                       wake |-> time + remaining[turn]]),
     time_update_task |-> Len(ts) + 1]

\* subtract_time_for_move charging a premove the elapsed time
SubtractTimeElapsedForPremove(remaining, last, turn, is_premove, time) ==
    LET player_who_moved == opposite(turn)
        left == Max(0, RoundTenth(remaining[player_who_moved] - (time - last)))
    IN  IF last = NoTime
        THEN [time_remaining |-> remaining, last_move_time |-> time]
        ELSE [time_remaining |->
                [remaining EXCEPT ![player_who_moved] =
                    RoundTenth(left + INCREMENT_SECONDS)],
              last_move_time |-> time]

\* subtract_time_for_move without the floor at zero
SubtractTimeNoFloor(remaining, last, turn, is_premove, time) ==
    LET player_who_moved == opposite(turn)
        spent == IF is_premove THEN PremovePenalty ELSE time - last
    IN  IF last = NoTime
        THEN [time_remaining |-> remaining, last_move_time |-> time]
        ELSE [time_remaining |->
                [remaining EXCEPT ![player_who_moved] =
                    RoundTenth(RoundTenth(remaining[player_who_moved] - spent)
                                   + INCREMENT_SECONDS)],
              last_move_time |-> time]

\* subtract_time_for_move at time `time', `turn' being the side to move
\* after the commit; returns the fields of the room it writes
subtract_time_for_move(remaining, last, turn, is_premove, time) ==
    LET elapsed == time - last
        player_who_moved == opposite(turn)
        spent == IF is_premove THEN PremovePenalty ELSE elapsed
        left == Max(0, RoundTenth(remaining[player_who_moved] - spent))
    IN  IF last = NoTime
        THEN [time_remaining |-> remaining, last_move_time |-> time]
        ELSE [time_remaining |->
                [remaining EXCEPT ![player_who_moved] =
                    RoundTenth(left + INCREMENT_SECONDS)],
              last_move_time |-> time]

\* PieceType(promotion_str) succeeds
IsPieceTypeValue(promotion_str) == promotion_str \in PieceType

-----------------------------------------------------------------------------
(* Move submissions.  A run is driven by one book: a main line of          *)
(* (from, to, promotion) triples, of which the next one is offered, and a  *)
(* set of extra triples that are offered at every step, legal or not.      *)

Mv(from_row, from_col, to_row, to_col) ==
    [from |-> <<from_row, from_col>>, to |-> <<to_row, to_col>>, promotion |-> None]

MvP(from_row, from_col, to_row, to_col, promotion) ==
    [from |-> <<from_row, from_col>>, to |-> <<to_row, to_col>>, promotion |-> promotion]

\* 1.f3 e5 2.g4 Qh4#
LineMate ==
    <<Mv(1, 5, 2, 5), Mv(6, 4, 4, 4), Mv(1, 6, 3, 6), Mv(7, 3, 3, 7)>>

\* 2.g3 instead, Qh4xf2, and a move after the mate
ExtraMate ==
    {Mv(1, 6, 2, 6), Mv(3, 7, 1, 5), Mv(0, 4, 1, 5), Mv(1, 4, 2, 4)}

\* 1.e4 a6 2.e5 d5 3.exd6 a5
LineEnPassant ==
    <<Mv(1, 4, 3, 4), Mv(6, 0, 5, 0), Mv(3, 4, 4, 4), Mv(6, 3, 4, 3),
      Mv(4, 4, 5, 3), Mv(5, 0, 4, 0)>>

\* 2...f5 3.exf6 on the other side, 3.a3 to let the capture expire, and
\* 3.exd6 tried on a square that is not the target
ExtraEnPassant ==
    {Mv(6, 5, 4, 5), Mv(4, 4, 5, 5), Mv(1, 0, 2, 0), Mv(4, 4, 5, 3)}

\* 1.a3 d5 2.a4 d4 3.e4 dxe3 4.fxe3
LineEnPassantBlack ==
    <<Mv(1, 0, 2, 0), Mv(6, 3, 4, 3), Mv(2, 0, 3, 0), Mv(4, 3, 3, 3),
      Mv(1, 4, 3, 4), Mv(3, 3, 2, 4), Mv(1, 5, 2, 4)>>

\* 3.c4 dxc3 on the other side, 3.e3 dxe3 (a plain capture), and a5 to let
\* the capture expire
ExtraEnPassantBlack ==
    {Mv(1, 2, 3, 2), Mv(3, 3, 2, 2), Mv(1, 4, 2, 4), Mv(3, 3, 2, 4), Mv(3, 0, 4, 0)}

\* 1.h4 g5 2.hxg5 a6 3.g6 a5 4.gxh7 a4 5.hxg8=Q a3 6.Qxh8
LinePromotion ==
    <<Mv(1, 7, 3, 7), Mv(6, 6, 4, 6), Mv(3, 7, 4, 6), Mv(6, 0, 5, 0),
      Mv(4, 6, 5, 6), Mv(5, 0, 4, 0), Mv(5, 6, 6, 7), Mv(4, 0, 3, 0),
      Mv(6, 7, 7, 6), Mv(3, 0, 2, 0), Mv(7, 6, 7, 7)>>

\* the other promotion choices, a token that is no piece type, a knight's
\* move of the new piece, and
\* ...Rxg8 and bxa3
ExtraPromotion ==
    {MvP(6, 7, 7, 6, "knight"), MvP(6, 7, 7, 6, "king"), MvP(6, 7, 7, 6, "pawn"),
     MvP(6, 7, 7, 6, "dragon"),
     Mv(7, 6, 5, 5), Mv(7, 7, 7, 6), Mv(1, 1, 2, 0)}

\* 1.e4 e5 2.Nf3 Nf6 3.Bc4 Bc5 4.O-O O-O
LineCastle ==
    <<Mv(1, 4, 3, 4), Mv(6, 4, 4, 4), Mv(0, 6, 2, 5), Mv(7, 6, 5, 5),
      Mv(0, 5, 3, 2), Mv(7, 5, 4, 2), Mv(0, 4, 0, 6), Mv(7, 4, 7, 6)>>

\* Ke2, Rg1, O-O-O and ...Ke7
ExtraCastle ==
    {Mv(0, 4, 1, 4), Mv(0, 7, 0, 6), Mv(0, 4, 0, 2), Mv(7, 4, 6, 4)}

\* 1.d4 d5 2.Nc3 Nc6 3.Bf4 Bf5 4.Qd2 Qd7 5.O-O-O O-O-O
LineLongCastle ==
    <<Mv(1, 3, 3, 3), Mv(6, 3, 4, 3), Mv(0, 1, 2, 2), Mv(7, 1, 5, 2),
      Mv(0, 2, 3, 5), Mv(7, 2, 4, 5), Mv(0, 3, 1, 3), Mv(7, 3, 6, 3),
      Mv(0, 4, 0, 2), Mv(7, 4, 7, 2)>>

\* O-O-O and ...O-O-O before the way is clear, Ra1-b1 and O-O
ExtraLongCastle ==
    {Mv(0, 4, 0, 2), Mv(7, 4, 7, 2), Mv(0, 0, 0, 1), Mv(0, 4, 0, 6)}

\* 1.e4 b6 2.g3 Ba6 3.Bg2 e6 4.Nf3 h6 5.d3 h5: from 3.Bg2 on the bishop on
\* a6 attacks f1, until 5.d3 closes its diagonal
LineTransit ==
    <<Mv(1, 4, 3, 4), Mv(6, 1, 5, 1), Mv(1, 6, 2, 6), Mv(7, 2, 5, 0),
      Mv(0, 5, 1, 6), Mv(6, 4, 5, 4), Mv(0, 6, 2, 5), Mv(6, 7, 5, 7),
      Mv(1, 3, 2, 3), Mv(5, 7, 4, 7)>>

\* O-O, Kf1 and Ke2
ExtraTransit ==
    {Mv(0, 4, 0, 6), Mv(0, 4, 0, 5), Mv(0, 4, 1, 4)}

\* 1.e4 e5 2.d4 Bb4+ 3.Nc3 a6 4.Nf3; after 3.Nc3 the knight is pinned
LinePin ==
    <<Mv(1, 4, 3, 4), Mv(6, 4, 4, 4), Mv(1, 3, 3, 3), Mv(7, 5, 3, 1),
      Mv(0, 1, 2, 2), Mv(6, 0, 5, 0), Mv(0, 6, 2, 5)>>

\* 3.c3, 3.Ke2, 3.Kd2 (into the bishop's line), 4.Nd5 and 4.Nb5 (leaving
\* the pin), ...Bxc3+
ExtraPin ==
    {Mv(1, 2, 2, 2), Mv(0, 4, 1, 4), Mv(0, 4, 1, 3), Mv(2, 2, 4, 3),
     Mv(2, 2, 4, 1), Mv(3, 1, 2, 2)}

\* Sam Loyd's ten-move stalemate: 1.e3 a5 2.Qh5 Ra6 3.Qxa5 h5 4.h4 Rah6
\* 5.Qxc7 f6 6.Qxd7+ Kf7 7.Qxb7 Qd3 8.Qxb8 Qh7 9.Qxc8 Kg6 10.Qe6
LineStalemate ==
    <<Mv(1, 4, 2, 4), Mv(6, 0, 4, 0), Mv(0, 3, 4, 7), Mv(7, 0, 5, 0),
      Mv(4, 7, 4, 0), Mv(6, 7, 4, 7), Mv(1, 7, 3, 7), Mv(5, 0, 5, 7),
      Mv(4, 0, 6, 2), Mv(6, 5, 5, 5), Mv(6, 2, 6, 3), Mv(7, 4, 6, 5),
      Mv(6, 3, 6, 1), Mv(7, 3, 2, 3), Mv(6, 1, 7, 1), Mv(2, 3, 6, 7),
      Mv(7, 1, 7, 2), Mv(6, 5, 5, 6), Mv(7, 2, 5, 4)>>

\* 10.Qe6 comes too early after 9...Kf7-g6 is replaced by a pawn move, and
\* a move tried in the final position
ExtraStalemate ==
    {Mv(6, 6, 5, 6), Mv(5, 6, 4, 6)}

\* the session's line is the mate line: 1.f3 e5 2.g4 Qh4#
LineSession == LineMate

\* ...e5 with a promotion token that is no piece type, Ra1-b3 (no rook
\* move), Ra1 to a square off the board, and a move from the empty
\* square d4
ExtraSession ==
    {MvP(6, 4, 4, 4, "dragon"), Mv(0, 0, 2, 1), Mv(0, 0, 8, 0), Mv(3, 3, 4, 3)}

Books ==
    [session   |-> [line |-> LineSession, extra |-> ExtraSession],
     mate      |-> [line |-> LineMate, extra |-> ExtraMate],
     enpassant |-> [line |-> LineEnPassant, extra |-> ExtraEnPassant],
     promotion |-> [line |-> LinePromotion, extra |-> ExtraPromotion],
     enpassantblack |-> [line |-> LineEnPassantBlack, extra |-> ExtraEnPassantBlack],
     castle    |-> [line |-> LineCastle, extra |-> ExtraCastle],
     longcastle |-> [line |-> LineLongCastle, extra |-> ExtraLongCastle],
     transit   |-> [line |-> LineTransit, extra |-> ExtraTransit],
     pin       |-> [line |-> LinePin, extra |-> ExtraPin],
     stalemate |-> [line |-> LineStalemate, extra |-> ExtraStalemate]]

\* the submissions offered after n committed plies: the next move of the
\* book's line and the book's extras
Offered(b, n) ==
    (IF n < Len(Books[b].line) THEN {Books[b].line[n + 1]} ELSE {}) \cup Books[b].extra

\* longest game played, in plies
MaxPly == 19

-----------------------------------------------------------------------------
(* The rule engine on its own: a ChessGame() driven through make_move      *)

vars == <<gameVars, ret, book, sessionVars>>

\* WebSocketState.CONNECTED.value
CONNECTED == 1

\* nobody waits in the queue: the connections of the players are open
LobbyEmpty ==
    /\ queue = <<>>
    /\ client_state = [p \in Players |-> CONNECTED]
    /\ pending_names = {}
    /\ uuids = 0

\* ChessGame.__init__
GameInit ==
    /\ board = _initialize_board
    /\ current_turn = "white"
    /\ move_history = <<>>
    /\ en_passant_target = None
    /\ ret = <<>>

\* Room.__init__
RoomInit ==
    /\ premoves = [p \in Players |-> NoPremove]
    /\ game_ended = FALSE
    /\ time_remaining = [c \in Color |-> STARTING_TIME_SECONDS]
    /\ last_move_time = NoTime
    /\ time_update_task = NoTask
    /\ tasks = <<>>

\* the books the engine is driven by on its own
EngineBooks ==
    {"mate", "enpassant", "enpassantblack", "promotion", "castle", "longcastle",
     "transit", "pin", "stalemate"}

\* a game that no room owns: nobody is connected
EngineInit ==
    /\ GameInit
    /\ RoomInit
    /\ book \in EngineBooks
    /\ now = 0
    /\ ticks = 0
    /\ hpc = [p \in Players |-> "closed"]
    /\ hres = [p \in Players |-> <<None>>]
    /\ sent = [p \in Players |-> <<>>]
    /\ rooms = FALSE
    /\ websocket_to_room = [p \in Players |-> FALSE]
    /\ LobbyEmpty

\* one call game.make_move(from, to, promotion) as the move handler issues
\* it: the promotion token is absent or a PieceType value
MakeMoveCall(m) ==
    /\ Len(move_history) < MaxPly
    /\ m.promotion = None \/ IsPieceTypeValue(m.promotion)
    /\ \E r \in {make_move(CurrentGame, m.from, m.to, m.promotion)} :
           SetGame(r.game) /\ ret' = <<r.ok>>
    /\ UNCHANGED <<book, sessionVars>>

EngineNext == \E m \in Offered(book, Len(move_history)) : MakeMoveCall(m)

SpecEngine == EngineInit /\ [][EngineNext]_vars

-----------------------------------------------------------------------------
(* The session: one room, the two websocket_endpoint coroutines and the    *)
(* alarm tasks, interleaved at their awaits.  A coroutine runs from one    *)
(* await to the next in one step.  hpc values:                             *)
(*   "creating"   in try_create_room, awaiting the sends of the match      *)
(*                notice and of the first board state                      *)
(*   "recv"       awaiting receive_text                                    *)
(*   "broadcast"  awaiting the sends of broadcast_board_state after a      *)
(*                committed regular move                                   *)
(*   "premove_broadcast"  the same after a committed premove               *)
(*   "notify"     in notify_players for a game_over result, awaiting the   *)
(*                send to player1                                          *)
(*   "resign"     in ConnectionManager.disconnect, awaiting the send of    *)
(*                the resignation result                                   *)
(*   "closed"     the coroutine has returned                               *)
(*   "crashed"    the coroutine ended with an uncaught exception           *)
(* The sends of one broadcast_board_state are one await position: between  *)
(* them the coroutine only reads.  A direct answer to the player           *)
(* (premove_set, premove_cancelled, error) is the last thing its branch    *)
(* does, so the coroutine is back at receive_text in the same step.        *)

\* the books a session is driven by
SessionBooks == {"session"}

\* the time steps the model takes, in 1/100 s
TickSteps == {18000}

\* how often time passes in one run
MaxTicks == 2

\* the submissions a player may send after n committed plies: the next two
\* moves of the line (the second one is the waiting player's premove) and
\* the extras
Submissions(b, n) == Offered(b, n) \cup Offered(b, n + 1)

\* ChessGame.__init__
NewGame == Game(_initialize_board, "white", <<>>, None)

\* PieceType(premove_promotion_str), with ValueError swallowed
PremovePromotion(promotion_str) ==
    IF promotion_str # None /\ IsPieceTypeValue(promotion_str) THEN promotion_str
    ELSE None

\* every (from, to, promotion) a session hands to make_move after n plies
SessionCalls(n) ==
    LET subs == UNION {Submissions(b, n) : b \in SessionBooks}
    IN  subs \cup {[m EXCEPT !.promotion = PremovePromotion(m.promotion)] : m \in subs}

RECURSIVE GamesFrom(_)
\* the games that the calls of a session lead to from the games in S
GamesFrom(S) ==
    Assign(S \cup UNION {{make_move(g, m.from, m.to, m.promotion).game :
                             m \in SessionCalls(Len(g.move_history))} : g \in S},
           LAMBDA T : IF T = S THEN S ELSE GamesFrom(T))

\* every game a session can hold
SessionGames == GamesFrom({NewGame})

\* room.game.make_move(from, to, promotion) and room.game.is_game_over() /
\* get_game_result() are functions of the game they are called on: they are
\* worked out once for every game a session can hold
MakeMoveTable ==
    [g \in SessionGames |->
        [m \in SessionCalls(Len(g.move_history)) |->
            make_move(g, m.from, m.to, m.promotion)]] @@ <<>>

GameResultTable ==
    [g \in SessionGames |->
        [over   |-> is_game_over(g.board, g.current_turn, g.en_passant_target),
         result |-> get_game_result(g.board, g.current_turn, g.en_passant_target)]] @@ <<>>

\* room.game.make_move(m["from"], m["to"], promotion)
RoomMakeMove(m) == MakeMoveTable[CurrentGame][m]

\* room.game.is_game_over()
RoomIsGameOver == GameResultTable[CurrentGame].over

\* room.game.get_game_result()
RoomGameResult == GameResultTable[CurrentGame].result

InRoom(p) == websocket_to_room[p] /\ rooms

\* send_text of a game_over result to player q; a closed connection raises
\* RuntimeError, which notify_players swallows
Deliver(s, q, result) ==
    IF hpc[q] \in {"closed", "crashed"} THEN s
    ELSE [s EXCEPT ![q] = Append(@, result)]

SetClock(r) ==
    /\ time_remaining' = r.time_remaining
    /\ last_move_time' = r.last_move_time

SetAlarm(r) ==
    /\ last_move_time' = r.last_move_time
    /\ tasks' = r.tasks
    /\ time_update_task' = r.time_update_task

\* the room as try_create_room has just built and registered it; the
\* coroutine that called try_create_room is the creator
Init ==
    /\ GameInit
    /\ RoomInit
    /\ book \in SessionBooks
    /\ now = 0
    /\ ticks = 0
    /\ \E creator \in Players :
          hpc = [p \in Players |-> IF p = creator THEN "creating" ELSE "recv"]
    /\ hres = [p \in Players |-> <<None>>]
    /\ sent = [p \in Players |-> <<>>]
    /\ rooms = TRUE
    /\ websocket_to_room = [p \in Players |-> TRUE]
    /\ LobbyEmpty

\* try_create_room after its sends: await room.start_time_tracking()
CreateRoomDone(p) ==
    /\ hpc[p] = "creating"
    /\ SetAlarm(start_time_tracking(tasks, time_update_task, time_remaining, current_turn, now))
    /\ hpc' = [hpc EXCEPT ![p] = "recv"]
    /\ UNCHANGED <<gameVars, ret, book, premoves, game_ended, time_remaining,
                   now, ticks, hres, sent, rooms, websocket_to_room, lobbyVars>>

\* the out-of-turn branch restarting the clock when it stores a premove
HandlePremoveRestartingClock(p, m) ==
    /\ premoves' = IF is_valid_premove(board, m.from, m.to, get_player_color(p))
                   THEN [premoves EXCEPT ![p] = m]
                   ELSE premoves
    /\ SetAlarm(start_time_tracking(tasks, time_update_task, time_remaining,
                                    current_turn, now))
    /\ UNCHANGED <<gameVars, game_ended, time_remaining, hpc>>

\* the out-of-turn branch emptying the slot of a player who already has a
\* premove
HandlePremoveDroppingSecond(p, m) ==
    /\ premoves' = IF is_valid_premove(board, m.from, m.to, get_player_color(p))
                   THEN [premoves EXCEPT ![p] = IF @ = NoPremove THEN m ELSE NoPremove]
                   ELSE premoves
    /\ UNCHANGED <<gameVars, game_ended, time_remaining, last_move_time,
                   time_update_task, tasks, hpc>>

\* the out-of-turn branch of the move handler: the submission is stored as
\* the player's premove if is_valid_premove accepts it; either way an
\* answer (premove_set or an error) is sent and the loop continues
HandlePremove(p, m) ==
    /\ premoves' = IF is_valid_premove(board, m.from, m.to, get_player_color(p))
                   THEN [premoves EXCEPT ![p] = m]
                   ELSE premoves
    /\ UNCHANGED <<gameVars, game_ended, time_remaining, last_move_time,
                   time_update_task, tasks, hpc>>

\* the on-turn branch with a promotion token that is not a PieceType value:
\* an error is sent and the loop continues
HandleBadPromotion(p, m) ==
    UNCHANGED <<gameVars, roomVars, hpc>>

\* the on-turn branch: make_move; on success clock accounting, the mover's
\* premove slot is cleared and the broadcast starts; on failure an error is
\* sent and the loop continues
HandleOnTurn(p, m) ==
    LET r == RoomMakeMove(m)
    IN  /\ SetGame(r.game)
        /\ IF r.ok
           THEN /\ SetClock(subtract_time_for_move(time_remaining, last_move_time,
                                                   r.game.current_turn, FALSE, now))
                /\ premoves' = [premoves EXCEPT ![p] = NoPremove]
                /\ hpc' = [hpc EXCEPT ![p] = "broadcast"]
           ELSE UNCHANGED <<premoves, time_remaining, last_move_time, hpc>>
        /\ UNCHANGED <<game_ended, time_update_task, tasks>>

\* receive_text returns a move message m of player p: the handler runs up
\* to its first await
HandleMove(p, m) ==
    /\ hpc[p] = "recv" /\ InRoom(p)
    /\ IF get_player_color(p) # current_turn THEN HandlePremove(p, m)
       ELSE IF m.promotion # None /\ ~IsPieceTypeValue(m.promotion)
            THEN HandleBadPromotion(p, m)
       ELSE HandleOnTurn(p, m)
    /\ UNCHANGED <<ret, book, now, ticks, hres, sent, rooms, websocket_to_room, lobbyVars>>

\* is_game_over() held after a broadcast: the alarm is cancelled, the flag
\* is set and notify_players sends the result to player1
AnnounceGameOver(p) ==
    /\ tasks' = CancelTask(tasks, time_update_task)
    /\ game_ended' = TRUE
    /\ LET game_result == RoomGameResult
       IN  /\ hres' = [hres EXCEPT ![p] = game_result]
           /\ sent' = Deliver(sent, "player1", game_result)
    /\ hpc' = [hpc EXCEPT ![p] = "notify"]
    /\ UNCHANGED <<gameVars, premoves, time_remaining, last_move_time, time_update_task>>

\* the handler going on after start_time_tracking without looking at the
\* opponent's premove
RestartWithoutPremove(p) ==
    /\ SetAlarm(start_time_tracking(tasks, time_update_task, time_remaining,
                                    current_turn, now))
    /\ hpc' = [hpc EXCEPT ![p] = "recv"]
    /\ UNCHANGED <<gameVars, premoves, time_remaining, game_ended, hres, sent>>

\* game not over after a regular move: start_time_tracking, then the
\* opponent's premove, if any, is attempted once and its slot cleared; if
\* make_move commits it, the premove penalty is charged and the second
\* broadcast starts
RestartAndPremove(p) ==
    LET a == start_time_tracking(tasks, time_update_task, time_remaining, current_turn, now)
        premove_data == premoves[Opponent(p)]
        r == RoomMakeMove([premove_data EXCEPT
                              !.promotion = PremovePromotion(premove_data.promotion)])
    IN  /\ tasks' = a.tasks
        /\ time_update_task' = a.time_update_task
        /\ IF premove_data = NoPremove
           THEN /\ last_move_time' = a.last_move_time
                /\ hpc' = [hpc EXCEPT ![p] = "recv"]
                /\ UNCHANGED <<gameVars, premoves, time_remaining>>
           ELSE /\ SetGame(r.game)
                /\ premoves' = [premoves EXCEPT ![Opponent(p)] = NoPremove]
                /\ IF r.ok
                   THEN /\ SetClock(subtract_time_for_move(time_remaining, a.last_move_time,
                                                           r.game.current_turn, TRUE, now))
                        /\ hpc' = [hpc EXCEPT ![p] = "premove_broadcast"]
                   ELSE /\ last_move_time' = a.last_move_time
                        /\ hpc' = [hpc EXCEPT ![p] = "recv"]
                        /\ UNCHANGED time_remaining
        /\ UNCHANGED <<game_ended, hres, sent>>

\* the handler of a committed regular move resumes after its broadcast
AfterBroadcast(p) ==
    /\ hpc[p] = "broadcast"
    /\ IF RoomIsGameOver
       THEN AnnounceGameOver(p)
       ELSE RestartAndPremove(p)
    /\ UNCHANGED <<ret, book, now, ticks, rooms, websocket_to_room, lobbyVars>>

\* the handler going on after the broadcast of a committed premove as it
\* does after that of a regular move
AfterPremoveBroadcastAttempting(p) ==
    /\ hpc[p] = "premove_broadcast"
    /\ IF RoomIsGameOver
       THEN AnnounceGameOver(p)
       ELSE RestartAndPremove(p)
    /\ UNCHANGED <<ret, book, now, ticks, rooms, websocket_to_room, lobbyVars>>

\* the handler resumes after the broadcast of a committed premove: game
\* over, or the clock is restarted; no further premove is attempted
AfterPremoveBroadcast(p) ==
    /\ hpc[p] = "premove_broadcast"
    /\ IF RoomIsGameOver
       THEN AnnounceGameOver(p)
       ELSE /\ SetAlarm(start_time_tracking(tasks, time_update_task, time_remaining,
                                            current_turn, now))
            /\ hpc' = [hpc EXCEPT ![p] = "recv"]
            /\ UNCHANGED <<gameVars, premoves, game_ended, time_remaining, hres, sent>>
    /\ UNCHANGED <<ret, book, now, ticks, rooms, websocket_to_room, lobbyVars>>

\* notify_players after its first send: the result goes to player2
NotifySecond(p) ==
    /\ hpc[p] = "notify"
    /\ sent' = Deliver(sent, "player2", hres[p])
    /\ hpc' = [hpc EXCEPT ![p] = "recv"]
    /\ hres' = [hres EXCEPT ![p] = <<None>>]
    /\ UNCHANGED <<gameVars, ret, book, roomVars, now, ticks, rooms, websocket_to_room, lobbyVars>>

\* receive_text returns a cancel_premove message of a player who has a
\* premove
CancelPremove(p) ==
    /\ hpc[p] = "recv" /\ InRoom(p)
    /\ premoves[p] # NoPremove
    /\ premoves' = [premoves EXCEPT ![p] = NoPremove]
    /\ UNCHANGED <<gameVars, ret, book, game_ended, time_remaining, last_move_time,
                   time_update_task, tasks, now, ticks, hpc, hres, sent, rooms,
                   websocket_to_room, lobbyVars>>

\* await asyncio.sleep(duration) returns in task t: the clock of its color
\* is zeroed, _handle_time_expiration sets the flag and notify_players
\* sends the result to player1
AlarmFire(t) ==
    /\ tasks[t].state = "sleeping"
    /\ now >= tasks[t].wake
    /\ time_remaining' = [time_remaining EXCEPT ![tasks[t].color] = 0]
    /\ game_ended' = TRUE
    /\ sent' = Deliver(sent, "player1", <<opposite(tasks[t].color), "wins on time">>)
    /\ tasks' = [tasks EXCEPT ![t].state = "notify"]
    /\ UNCHANGED <<gameVars, ret, book, premoves, last_move_time, time_update_task,
                   now, ticks, hpc, hres, rooms, websocket_to_room, lobbyVars>>

\* notify_players of task t after its first send: the result goes to
\* player2 and the task ends
AlarmNotifySecond(t) ==
    /\ tasks[t].state = "notify"
    /\ sent' = Deliver(sent, "player2", <<opposite(tasks[t].color), "wins on time">>)
    /\ tasks' = [tasks EXCEPT ![t].state = "finished"]
    /\ UNCHANGED <<gameVars, ret, book, premoves, game_ended, time_remaining,
                   last_move_time, time_update_task, now, ticks, hpc, hres,
                   rooms, websocket_to_room, lobbyVars>>

\* the clean-up at the end of ConnectionManager.disconnect: both mappings
\* and the room are deleted; KeyError if the mappings are already gone
CleanUp(p) ==
    IF websocket_to_room["player1"]
    THEN /\ websocket_to_room' = [q \in Players |-> FALSE]
         /\ rooms' = FALSE
         /\ hpc' = [hpc EXCEPT ![p] = "closed"]
    ELSE /\ hpc' = [hpc EXCEPT ![p] = "crashed"]
         /\ UNCHANGED <<rooms, websocket_to_room>>

\* receive_text raises WebSocketDisconnect: ConnectionManager.disconnect
\* up to its first await.  In a room it cancels the alarm; if the game is
\* neither over nor ended it sets the flag and sends the resignation result
\* to the other player, otherwise it cleans up at once
Disconnect(p) ==
    /\ hpc[p] = "recv"
    /\ IF ~InRoom(p)
       THEN /\ hpc' = [hpc EXCEPT ![p] = "closed"]
            /\ UNCHANGED <<tasks, game_ended, sent, rooms, websocket_to_room>>
       ELSE /\ tasks' = CancelTask(tasks, time_update_task)
            /\ IF ~RoomIsGameOver /\ ~game_ended
               THEN /\ game_ended' = TRUE
                    /\ sent' = Deliver(sent, Opponent(p),
                           <<get_player_color(Opponent(p)), "wins by resignation">>)
                    /\ hpc' = [hpc EXCEPT ![p] = "resign"]
                    /\ UNCHANGED <<rooms, websocket_to_room>>
               ELSE /\ CleanUp(p)
                    /\ UNCHANGED <<game_ended, sent>>
    /\ UNCHANGED <<gameVars, ret, book, premoves, time_remaining, last_move_time,
                   time_update_task, now, ticks, hres, lobbyVars>>

\* disconnect resumes after the resignation send and cleans up
DisconnectCleanup(p) ==
    /\ hpc[p] = "resign"
    /\ CleanUp(p)
    /\ UNCHANGED <<gameVars, ret, book, roomVars, now, ticks, hres, sent, lobbyVars>>

\* a sleeping alarm whose time has come runs before more time passes
AlarmDue == \E t \in DOMAIN tasks : tasks[t].state = "sleeping" /\ now >= tasks[t].wake

\* time passes
Tick(d) ==
    /\ ticks < MaxTicks
    /\ ~AlarmDue
    /\ now' = now + d
    /\ ticks' = ticks + 1
    /\ UNCHANGED <<gameVars, ret, book, roomVars, hpc, hres, sent, rooms,
                   websocket_to_room, lobbyVars>>

Next ==
    \/ \E p \in Players : CreateRoomDone(p)
    \/ \E p \in Players : \E m \in Submissions(book, Len(move_history)) : HandleMove(p, m)
    \/ \E p \in Players : AfterBroadcast(p)
    \/ \E p \in Players : AfterPremoveBroadcast(p)
    \/ \E p \in Players : NotifySecond(p)
    \/ \E p \in Players : CancelPremove(p)
    \/ \E p \in Players : Disconnect(p)
    \/ \E p \in Players : DisconnectCleanup(p)
    \/ \E t \in DOMAIN tasks : AlarmFire(t)
    \/ \E t \in DOMAIN tasks : AlarmNotifySecond(t)
    \/ \E d \in TickSteps : Tick(d)

Spec == Init /\ [][Next]_vars

\* the event loop lets time pass and runs a timer task whose sleep is over
\* or whose send has completed
TimerFairness ==
    /\ WF_vars(\E d \in TickSteps : Tick(d))
    /\ WF_vars(\E t \in DOMAIN tasks : AlarmFire(t))
    /\ WF_vars(\E t \in DOMAIN tasks : AlarmNotifySecond(t))

SpecTimer == Init /\ [][Next]_vars /\ TimerFairness

-----------------------------------------------------------------------------
(* The clock on its own: a Room whose subtract_time_for_move is called as  *)
(* the move handler calls it at a commit, after any lapse of time.  The    *)
(* time module's clock is read in 1/100 s.                                 *)

\* the lapses between two commits, in 1/100 s
ClockElapsed == {0, 4, 1234, 18000, 18296}

\* the commits of one run
MaxCommits == 2

\* a room nobody is connected to, its clock started by start_time_tracking
\* or not yet
ClockInit ==
    /\ GameInit
    /\ RoomInit
    /\ book \in SessionBooks
    /\ now = 0
    /\ ticks = 0
    /\ hpc = [p \in Players |-> "closed"]
    /\ hres = [p \in Players |-> <<None>>]
    /\ sent = [p \in Players |-> <<>>]
    /\ rooms = FALSE
    /\ websocket_to_room = [p \in Players |-> FALSE]
    /\ LobbyEmpty

\* start_time_tracking's write of last_move_time
ClockStart ==
    /\ last_move_time = NoTime
    /\ ticks = 0
    /\ last_move_time' = now
    /\ UNCHANGED <<gameVars, ret, book, premoves, game_ended, time_remaining,
                   time_update_task, tasks, now, ticks, hpc, hres, sent, rooms,
                   websocket_to_room, lobbyVars>>

\* room.subtract_time_for_move(is_premove) after a move of `color' has
\* committed, `elapsed' after the previous reading of the time; ticks counts
\* the commits
ClockCommit(color, is_premove, elapsed) ==
    /\ ticks < MaxCommits
    /\ now' = now + elapsed
    /\ ticks' = ticks + 1
    /\ SetClock(subtract_time_for_move(time_remaining, last_move_time,
                                       opposite(color), is_premove, now'))
    /\ UNCHANGED <<gameVars, ret, book, premoves, game_ended, time_update_task,
                   tasks, hpc, hres, sent, rooms, websocket_to_room, lobbyVars>>

ClockNext ==
    \/ ClockStart
    \/ \E color \in Color : \E is_premove \in BOOLEAN : \E elapsed \in ClockElapsed :
          ClockCommit(color, is_premove, elapsed)

SpecClock == ClockInit /\ [][ClockNext]_vars

-----------------------------------------------------------------------------
(* Position.to_algebraic and Position.from_algebraic on their own.  ret    *)
(* holds the last value, tagged with its type; ticks counts the calls.     *)

\* the 64 squares
Squares == (0..7) \X (0..7)

\* the notations a1..h8
Notations == {<<file, rank>> : file \in 97..104, rank \in 49..56}

\* the conversions applied to one value in a row
MaxCalls == 2

\* a Position or a notation to start from
TakeValue(type, value) ==
    /\ ret = <<>>
    /\ ret' = <<type, value>>
    /\ UNCHANGED <<gameVars, book, sessionVars>>

\* ret.to_algebraic()
ToAlgebraicCall ==
    /\ Len(ret) = 2 /\ ret[1] = "Position"
    /\ ticks < MaxCalls
    /\ ret' = <<"str", to_algebraic(ret[2])>>
    /\ ticks' = ticks + 1
    /\ UNCHANGED <<gameVars, book, roomVars, now, hpc, hres, sent, rooms,
                   websocket_to_room, lobbyVars>>

\* Position.from_algebraic(ret)
FromAlgebraicCall ==
    /\ Len(ret) = 2 /\ ret[1] = "str"
    /\ ticks < MaxCalls
    /\ ret' = <<"Position", from_algebraic(ret[2])>>
    /\ ticks' = ticks + 1
    /\ UNCHANGED <<gameVars, book, roomVars, now, hpc, hres, sent, rooms,
                   websocket_to_room, lobbyVars>>

NotationNext ==
    \/ \E pos \in Squares : TakeValue("Position", pos)
    \/ \E notation \in Notations : TakeValue("str", notation)
    \/ ToAlgebraicCall
    \/ FromAlgebraicCall

SpecNotation == ClockInit /\ [][NotationNext]_vars

-----------------------------------------------------------------------------
(* The sliding pieces on their own: a ChessGame whose board was cleared    *)
(* and set up with one white rook, bishop or queen, white pawns and black  *)
(* pawns, and get_possible_moves called for the piece.                     *)

\* game.board.clear()
ClearedBoard ==
    [at |-> [row \in 0..7 |-> [col \in 0..7 |-> NoPiece]], keys |-> <<>>]

\* game.board[pos] = piece for each pos of the sequence
RECURSIVE PlaceAll(_, _, _)
PlaceAll(b, squares, piece) ==
    IF squares = <<>> THEN b
    ELSE PlaceAll(DictSet(b, Head(squares), piece), Tail(squares), piece)

SlidingTypes == {"rook", "bishop", "queen"}

\* the white pawns set up: none, d6, f6, or d6 and b4
OwnBlockers == {<<>>, <<<<5, 3>>>>, <<<<5, 5>>>>, <<<<5, 3>>, <<3, 1>>>>}

\* the black pawns set up: none, d2, g7, or d7 and f4
EnemyBlockers == {<<>>, <<<<1, 3>>>>, <<<<6, 6>>>>, <<<<6, 3>>, <<3, 5>>>>}

\* the board with the piece on pos and the pawns
SlidingBoard(piece_type, pos, own, enemy) ==
    PlaceAll(PlaceAll(DictSet(ClearedBoard, pos, Piece(piece_type, "white", FALSE)),
                      own, Piece("pawn", "white", FALSE)),
             enemy, Piece("pawn", "black", FALSE))

SlidingInit ==
    /\ \E piece_type \in SlidingTypes : \E pos \in Squares :
          \E own \in OwnBlockers : \E enemy \in EnemyBlockers :
             /\ ~SeqContains(own \o enemy, pos)
             /\ board = SlidingBoard(piece_type, pos, own, enemy)
    /\ current_turn = "white"
    /\ move_history = <<>>
    /\ en_passant_target = None
    /\ ret = <<>>
    /\ RoomInit
    /\ book \in SessionBooks
    /\ now = 0
    /\ ticks = 0
    /\ hpc = [p \in Players |-> "closed"]
    /\ hres = [p \in Players |-> <<None>>]
    /\ sent = [p \in Players |-> <<>>]
    /\ rooms = FALSE
    /\ websocket_to_room = [p \in Players |-> FALSE]
    /\ LobbyEmpty

\* game.get_possible_moves(pos) for the piece set up first
PossibleMovesCall ==
    /\ ret = <<>>
    /\ \E r \in {get_possible_moves(board, current_turn, en_passant_target,
                                    board.keys[1])} :
          /\ ret' = <<r.moves>>
          /\ board' = r.board
          /\ en_passant_target' = r.en_passant_target
    /\ UNCHANGED <<current_turn, move_history, book, sessionVars>>

SpecSliding == SlidingInit /\ [][PossibleMovesCall]_vars

-----------------------------------------------------------------------------
(* The rule engine with its queries: between the make_move calls a caller  *)
(* asks for the moves of a square, for check, mate, stalemate or the       *)
(* result; ret holds <<name of the query, value returned>>                 *)

\* the game is left as the query leaves it
Query(name, r) ==
    /\ board' = r.board
    /\ en_passant_target' = r.en_passant_target
    /\ ret' = <<name, r.value>>
    /\ UNCHANGED <<current_turn, move_history, book, sessionVars>>

GetPossibleMovesCall(from_pos) ==
    Query("get_possible_moves",
          RunGetPossibleMoves(board, current_turn, en_passant_target, from_pos))

IsInCheckCall(color) ==
    Query("is_in_check", RunIsInCheck(board, en_passant_target, color))

IsCheckmateCall ==
    Query("is_checkmate", RunIsCheckmate(board, current_turn, en_passant_target))

IsStalemateCall ==
    Query("is_stalemate", RunIsStalemate(board, current_turn, en_passant_target))

GetGameResultCall ==
    Query("get_game_result",
          RunGetGameResult(board, current_turn, en_passant_target))

QueryNext ==
    \/ \E m \in Offered(book, Len(move_history)) : MakeMoveCall(m)
    \/ \E from_pos \in Squares : GetPossibleMovesCall(from_pos)
    \/ \E color \in Color : IsInCheckCall(color)
    \/ IsCheckmateCall
    \/ IsStalemateCall
    \/ GetGameResultCall

SpecQuery == EngineInit /\ [][QueryNext]_vars

-----------------------------------------------------------------------------
(* The lobby: one ConnectionManager and several connections, each running  *)
(* websocket_endpoint.  Here rooms is the set of the rooms in              *)
(* ConnectionManager.rooms, a room being [id, player1, player2,            *)
(* game_ended], websocket_to_room gives each connection its room id or     *)
(* NoRoom, and hres holds the local `room' of a coroutine in disconnect.   *)
(* What happens inside a room is the subject of the session above; here a  *)
(* room's game may end at any time.  hpc values:                           *)
(*   "new"       before websocket.accept() has returned                    *)
(*   "greeting"  in connect, awaiting the send of the waiting notice       *)
(*   "creating"  in try_create_room, awaiting the sends to the new room    *)
(*   "recv"      awaiting receive_text                                     *)
(*   "resign"    in disconnect, awaiting the send of the resignation       *)
(*   "closed"    the coroutine has returned                                *)
(*   "crashed"   the coroutine ended with an uncaught exception            *)

\* the connections that arrive
WebSockets == {"ws1", "ws2", "ws3"}

\* WebSocketState.CONNECTING.value
CONNECTING == 0

\* WebSocketState.DISCONNECTED.value
DISCONNECTED == 2

\* websocket_to_room has no entry for the connection
NoRoom == 0

\* Room(player1, player2) with the id uuid4() hands out
Room(id, player1, player2) ==
    [id |-> id, player1 |-> player1, player2 |-> player2, game_ended |-> FALSE]

\* Room.get_player_color
RoomPlayerColor(room, websocket) ==
    IF websocket = room.player1 THEN "white"
    ELSE IF websocket = room.player2 THEN "black"
    ELSE None

\* self.queue.remove(websocket)
QueueRemove(q, websocket) == SelectSeq(q, LAMBDA w : w # websocket)

\* the fields of the manager a call leaves behind
Manager(q, rs, map, names, ids) ==
    [queue |-> q, rooms |-> rs, websocket_to_room |-> map,
     pending_names |-> names, uuids |-> ids]

CurrentManager == Manager(queue, rooms, websocket_to_room, pending_names, uuids)

SetManager(m) ==
    /\ queue' = m.queue
    /\ rooms' = m.rooms
    /\ websocket_to_room' = m.websocket_to_room
    /\ pending_names' = m.pending_names
    /\ uuids' = m.uuids

\* try_create_room pairing the two connections at the head of the queue
\* without looking at their state
TryCreateRoomUnchecked(m, cs) ==
    IF Len(m.queue) < 2 THEN m
    ELSE LET player1 == m.queue[1]
             player2 == m.queue[2]
             room == Room(m.uuids + 1, player1, player2)
         IN  Manager(SubSeq(m.queue, 3, Len(m.queue)),
                     m.rooms \cup {room},
                     [m.websocket_to_room EXCEPT ![player1] = room.id,
                                                 ![player2] = room.id],
                     m.pending_names \ {player1, player2},
                     m.uuids + 1)

\* try_create_room up to its first await, on manager m with the client
\* states cs
try_create_room(m, cs) ==
    IF Len(m.queue) < 2 THEN m
    ELSE LET player1 == m.queue[1]
             player2 == m.queue[2]
             popped == SubSeq(m.queue, 3, Len(m.queue))
             room == Room(m.uuids + 1, player1, player2)
             back1 == IF cs[player1] = CONNECTED THEN <<player1>> \o popped ELSE popped
             back2 == IF cs[player2] = CONNECTED THEN <<player2>> \o back1 ELSE back1
         IN  IF cs[player1] = CONNECTED /\ cs[player2] = CONNECTED
             THEN Manager(popped,
                          m.rooms \cup {room},
                          [m.websocket_to_room EXCEPT ![player1] = room.id,
                                                      ![player2] = room.id],
                          m.pending_names \ {player1, player2},
                          m.uuids + 1)
             ELSE Manager(back2, m.rooms, m.websocket_to_room, m.pending_names,
                          m.uuids)

\* the call created a room
Created(before, after) == after.uuids > before.uuids

\* what the lobby leaves alone: the game, clock and alarm of a room
insideRooms == <<gameVars, ret, book, roomVars, now, ticks, sent>>

\* ConnectionManager.__init__, and no connection has arrived
LobbyInit ==
    /\ GameInit
    /\ RoomInit
    /\ book \in SessionBooks
    /\ now = 0
    /\ ticks = 0
    /\ hpc = [c \in WebSockets |-> "new"]
    /\ hres = [c \in WebSockets |-> <<None>>]
    /\ sent = [c \in WebSockets |-> <<>>]
    /\ rooms = {}
    /\ websocket_to_room = [c \in WebSockets |-> NoRoom]
    /\ queue = <<>>
    /\ client_state = [c \in WebSockets |-> CONNECTING]
    /\ pending_names = {}
    /\ uuids = 0

\* connect after websocket.accept(): the connection joins the queue and the
\* waiting notice is sent
Accept(c) ==
    /\ hpc[c] = "new"
    /\ client_state' = [client_state EXCEPT ![c] = CONNECTED]
    /\ queue' = Append(queue, c)
    /\ hpc' = [hpc EXCEPT ![c] = "greeting"]
    /\ UNCHANGED <<rooms, websocket_to_room, pending_names, uuids, hres>>
    /\ UNCHANGED insideRooms

\* the calling coroutine goes on after try_create_room has run up to its
\* first await
AfterTryCreateRoom(c, m) ==
    /\ SetManager(m)
    /\ hpc' = [hpc EXCEPT ![c] = IF Created(CurrentManager, m) THEN "creating" ELSE "recv"]
    /\ UNCHANGED <<client_state, hres>>

\* connect after the send of the waiting notice: try_create_room
Greeted(c) ==
    /\ hpc[c] = "greeting"
    /\ AfterTryCreateRoom(c, try_create_room(CurrentManager, client_state))
    /\ UNCHANGED insideRooms

\* the send of the waiting notice raises on a connection that is no longer
\* open: connect is called outside the try block of websocket_endpoint, so
\* the coroutine ends and the connection stays in the queue
GreetingFails(c) ==
    /\ hpc[c] = "greeting"
    /\ client_state[c] # CONNECTED
    /\ hpc' = [hpc EXCEPT ![c] = "crashed"]
    /\ UNCHANGED <<rooms, websocket_to_room, lobbyVars, hres>>
    /\ UNCHANGED insideRooms

\* try_create_room after its sends and start_time_tracking
LobbyCreateRoomDone(c) ==
    /\ hpc[c] = "creating"
    /\ hpc' = [hpc EXCEPT ![c] = "recv"]
    /\ UNCHANGED <<rooms, websocket_to_room, lobbyVars, hres>>
    /\ UNCHANGED insideRooms

\* receive_text returns a set_name message: in a room the name is set in
\* the room and the board state is sent again; otherwise the name is
\* stored as pending and try_create_room is called
SetName(c) ==
    /\ hpc[c] = "recv"
    /\ IF websocket_to_room[c] # NoRoom
       THEN UNCHANGED <<rooms, websocket_to_room, lobbyVars, hpc, hres>>
       ELSE AfterTryCreateRoom(c,
                try_create_room([CurrentManager EXCEPT
                                     !.pending_names = @ \cup {c}], client_state))
    /\ UNCHANGED insideRooms

\* the clean-up of disconnect without the del of the second player's
\* mapping
LobbyCleanUpFirstOnly(c, room) ==
    /\ websocket_to_room' =
           IF websocket_to_room[room.player1] = NoRoom THEN websocket_to_room
           ELSE [websocket_to_room EXCEPT ![room.player1] = NoRoom]
    /\ rooms' = IF websocket_to_room[room.player1] = NoRoom
                THEN rooms
                ELSE {r \in rooms : r.id # room.id}
    /\ hpc' = [hpc EXCEPT ![c] =
                  IF /\ websocket_to_room[room.player1] # NoRoom
                     /\ \E r \in rooms : r.id = room.id
                  THEN "closed" ELSE "crashed"]

\* the clean-up at the end of disconnect for the room held in the local
\* variable: three del statements, each raising KeyError if its key is gone
LobbyCleanUp(c, room) ==
    /\ websocket_to_room' =
           IF websocket_to_room[room.player1] = NoRoom THEN websocket_to_room
           ELSE IF websocket_to_room[room.player2] = NoRoom
                THEN [websocket_to_room EXCEPT ![room.player1] = NoRoom]
                ELSE [websocket_to_room EXCEPT ![room.player1] = NoRoom,
                                               ![room.player2] = NoRoom]
    /\ rooms' = IF websocket_to_room[room.player1] = NoRoom
                   \/ websocket_to_room[room.player2] = NoRoom
                THEN rooms
                ELSE {r \in rooms : r.id # room.id}
    /\ hpc' = [hpc EXCEPT ![c] =
                  IF /\ websocket_to_room[room.player1] # NoRoom
                     /\ websocket_to_room[room.player2] # NoRoom
                     /\ \E r \in rooms : r.id = room.id
                  THEN "closed" ELSE "crashed"]

\* receive_text raises WebSocketDisconnect (the client state is then
\* DISCONNECTED): ConnectionManager.disconnect up to its first await
LobbyDisconnect(c) ==
    /\ hpc[c] = "recv"
    /\ client_state' = [client_state EXCEPT ![c] = DISCONNECTED]
    /\ IF SeqContains(queue, c)
       THEN /\ queue' = QueueRemove(queue, c)
            /\ pending_names' = pending_names \ {c}
            /\ hpc' = [hpc EXCEPT ![c] = "closed"]
            /\ UNCHANGED <<rooms, websocket_to_room, hres>>
       ELSE /\ UNCHANGED <<queue, pending_names>>
            /\ IF /\ websocket_to_room[c] # NoRoom
                  /\ \E r \in rooms : r.id = websocket_to_room[c]
               THEN \E room \in {r \in rooms : r.id = websocket_to_room[c]} :
                        IF ~room.game_ended
                        THEN /\ rooms' = (rooms \ {room})
                                             \cup {[room EXCEPT !.game_ended = TRUE]}
                             /\ hres' = [hres EXCEPT ![c] = room]
                             /\ hpc' = [hpc EXCEPT ![c] = "resign"]
                             /\ UNCHANGED websocket_to_room
                        ELSE /\ LobbyCleanUp(c, room)
                             /\ UNCHANGED hres
               ELSE /\ hpc' = [hpc EXCEPT ![c] = "closed"]
                    /\ UNCHANGED <<rooms, websocket_to_room, hres>>
    /\ UNCHANGED uuids
    /\ UNCHANGED insideRooms

\* disconnect resumes after the resignation send and cleans up
LobbyDisconnectCleanup(c) ==
    /\ hpc[c] = "resign"
    /\ LobbyCleanUp(c, hres[c])
    /\ UNCHANGED <<lobbyVars, hres>>
    /\ UNCHANGED insideRooms

\* the game of a room ends by checkmate, by stalemate or on time
RoomEnds(room) ==
    /\ ~room.game_ended
    /\ rooms' = (rooms \ {room}) \cup {[room EXCEPT !.game_ended = TRUE]}
    /\ UNCHANGED <<websocket_to_room, lobbyVars, hpc, hres>>
    /\ UNCHANGED insideRooms

\* the client of a connection goes away while its coroutine is not in
\* receive_text: the state of the connection is no longer CONNECTED
ClientLost(c) ==
    /\ hpc[c] \in {"greeting", "creating", "recv", "resign"}
    /\ client_state[c] = CONNECTED
    /\ client_state' = [client_state EXCEPT ![c] = DISCONNECTED]
    /\ UNCHANGED <<rooms, websocket_to_room, queue, pending_names, uuids, hpc, hres>>
    /\ UNCHANGED insideRooms

LobbyNext ==
    \/ \E c \in WebSockets : Accept(c)
    \/ \E c \in WebSockets : Greeted(c)
    \/ \E c \in WebSockets : GreetingFails(c)
    \/ \E c \in WebSockets : LobbyCreateRoomDone(c)
    \/ \E c \in WebSockets : SetName(c)
    \/ \E c \in WebSockets : LobbyDisconnect(c)
    \/ \E c \in WebSockets : LobbyDisconnectCleanup(c)
    \/ \E room \in rooms : RoomEnds(room)
    \/ \E c \in WebSockets : ClientLost(c)

SpecLobby == LobbyInit /\ [][LobbyNext]_vars

-----------------------------------------------------------------------------
(* Properties of the session                                               *)

\* C1: once game_ended is set, no step changes the board, the side to move,
\* the move history, a clock or a premove slot, and no new alarm is
\* scheduled.
C1_TerminalFlagFreezes ==
    [][game_ended =>
          /\ UNCHANGED <<board, current_turn, move_history, time_remaining, premoves>>
          /\ Len(tasks') = Len(tasks)]_vars

\* C2: an alarm scheduled for a color that was to move does not expire once
\* that color has committed a move: when an alarm's sleep returns, its color
\* is still the side to move.
C2_NoStaleExpiry ==
    [][\A t \in DOMAIN tasks :
          (tasks[t].state = "sleeping" /\ tasks'[t].state = "notify")
              => current_turn = tasks[t].color]_vars

\* C3: no player is sent more than one game_over result.
C3_AtMostOneResult == \A q \in Players : Len(sent[q]) <= 1

\* the move handler of p is between its commit and its return
MidMoveHandling(p) == hpc[p] \in {"broadcast", "premove_broadcast", "notify"}

\* C4: move handling is a critical section: while the move handler of a
\* player is part-way through, and while an alarm's expiry handling is
\* part-way through, no other handler changes the board, the side to move,
\* the history, a clock or a premove slot.
C4_MoveHandlingIsCritical ==
    [][/\ \A p \in Players :
            (MidMoveHandling(p) /\ hpc'[p] = hpc[p])
                => UNCHANGED <<gameVars, time_remaining, premoves>>
       /\ \A t \in DOMAIN tasks :
            (tasks[t].state = "notify" /\ tasks'[t].state = "notify")
                => UNCHANGED <<gameVars, time_remaining, premoves>>]_vars

-----------------------------------------------------------------------------
(* Properties of the rule engine                                           *)

\* make_move(m) refuses: the origin is empty, the piece is not of the side
\* to move, or the destination is not among get_possible_moves(from)
Refused(m) ==
    LET piece == get_piece(board, m.from)
    IN  \/ piece = NoPiece
        \/ piece.color # current_turn
        \/ ~SeqContains(get_possible_moves(board, current_turn, en_passant_target,
                                            m.from).moves, m.to)

\* C5: a call of make_move that is refused returns False and leaves board,
\* current_turn, move_history and en_passant_target as they were; every
\* other call returns True.
C5_RefusedMoveChangesNothing ==
    [][\A m \in Offered(book, Len(move_history)) :
          MakeMoveCall(m) =>
              IF Refused(m) THEN ret' = <<FALSE>> /\ UNCHANGED gameVars
              ELSE ret' = <<TRUE>>]_vars

\* a call was refused after the game had left the starting position
C5_Witness == ret = <<FALSE>> /\ Len(move_history) >= 3

\* the squares on which board b holds a king of the color
Kings(b, color) ==
    {pos \in (0..7) \X (0..7) :
        b.at[pos[1]][pos[2]] = Piece("king", color, b.at[pos[1]][pos[2]].has_moved)}

\* C6: after a successful make_move no king of the color that moved is
\* attacked.
C6_MoverKingNotAttacked ==
    ret = <<TRUE>> =>
        \A pos \in Kings(board, opposite(current_turn)) :
            ~_is_position_under_attack(board, pos, opposite(current_turn))

\* C7: the board holds exactly one king of each color.
C7_OneKingPerColor == \A color \in Color : Cardinality(Kings(board, color)) = 1

\* C8: a successful make_move appends one record to move_history, leaving
\* the earlier records as they were, and switches the turn; a failed one
\* changes neither; white is to move exactly when the history has even
\* length.
C8_HistoryAndTurn ==
    [][/\ ret' = <<TRUE>> =>
            /\ Len(move_history') = Len(move_history) + 1
            /\ SubSeq(move_history', 1, Len(move_history)) = move_history
            /\ current_turn' = opposite(current_turn)
       /\ ret' = <<FALSE>> => UNCHANGED <<move_history, current_turn>>
       /\ (current_turn' = "white") <=> (Len(move_history') % 2 = 0)]_vars

\* black is to move after an odd number of moves, the last call refused
C8_Witness == Len(move_history) = 5 /\ current_turn = "black" /\ ret = <<FALSE>>

\* no piece of the side to move has a legal destination
NoLegalDestination ==
    \A row \in 0..7, col \in 0..7 :
        board.at[row][col].color = current_turn
            => get_possible_moves(board, current_turn, en_passant_target,
                                  <<row, col>>).moves = <<>>

\* C9: is_checkmate holds exactly when the side to move is in check and has
\* no legal destination, is_stalemate exactly when it is not in check and
\* has none; they never hold together, and get_game_result is None exactly
\* when neither holds.
C9_TerminalDetection ==
    LET mate == is_checkmate(board, current_turn, en_passant_target)
        stale == is_stalemate(board, current_turn, en_passant_target)
    IN  /\ mate <=> (is_in_check(board, current_turn) /\ NoLegalDestination)
        /\ stale <=> (~is_in_check(board, current_turn) /\ NoLegalDestination)
        /\ ~(mate /\ stale)
        /\ (get_game_result(board, current_turn, en_passant_target) = <<None>>)
               <=> (~mate /\ ~stale)

\* the final position of the stalemate line
C9_Witness ==
    /\ is_stalemate(board, current_turn, en_passant_target)
    /\ get_game_result(board, current_turn, en_passant_target) = <<"Draw by stalemate">>

\* record m is a pawn's double step
IsDoubleStep(m) ==
    m.piece.piece_type = "pawn" /\ Abs(m.to_pos[1] - m.from_pos[1]) = 2

\* the square the pawn of record m skipped
SkippedSquare(m) == <<(m.from_pos[1] + m.to_pos[1]) \div 2, m.from_pos[2]>>

\* en_passant_target is the square skipped by the last committed move if
\* that was a pawn's double step, and None otherwise
TargetFollowsLastMove ==
    IF move_history # <<>> /\ IsDoubleStep(move_history[Len(move_history)])
    THEN en_passant_target = SkippedSquare(move_history[Len(move_history)])
    ELSE en_passant_target = None

\* C10: en_passant_target is set exactly when the last committed move was a
\* pawn's double step, to the square skipped; and a pawn goes diagonally to
\* an empty square only as the reply to a double step over that square.
C10_EnPassantOneReply ==
    [][/\ TargetFollowsLastMove'
       /\ \A m \in Offered(book, Len(move_history)) :
            (/\ MakeMoveCall(m)
             /\ ret' = <<TRUE>>
             /\ get_piece(board, m.from).piece_type = "pawn"
             /\ m.from[2] # m.to[2]
             /\ get_piece(board, m.to) = NoPiece)
                => /\ move_history # <<>>
                   /\ IsDoubleStep(move_history[Len(move_history)])
                   /\ SkippedSquare(move_history[Len(move_history)]) = m.to]_vars

\* an en passant capture has been made, and a later move has cleared the
\* target
C10_Witness ==
    /\ \E i \in DOMAIN move_history : move_history[i].is_en_passant
    /\ en_passant_target = None
    /\ ret = <<TRUE>>

\* the elements of sequence s
Range(s) == {s[i] : i \in DOMAIN s}

\* the conditions of castling toward column rook_col for the king on
\* king_pos of board b
CastlingAllowed(b, king_pos, rook_col) ==
    LET king == get_piece(b, king_pos)
        rook == get_piece(b, <<king_pos[1], rook_col>>)
        step == IF rook_col > king_pos[2] THEN 1 ELSE -1
        between == {col \in 1..6 : (col - king_pos[2]) * (col - rook_col) < 0}
    IN  /\ ~king.has_moved
        /\ rook.piece_type = "rook" /\ ~rook.has_moved
        /\ \A col \in between : get_piece(b, <<king_pos[1], col>>) = NoPiece
        /\ ~is_in_check(b, king.color)
        /\ ~_is_position_under_attack(b, offset(king_pos, 0, step), king.color)
        /\ ~_is_position_under_attack(b, offset(king_pos, 0, 2 * step), king.color)

\* the squares next to king_pos that the king may step to: on the board,
\* not on a piece of its color, and the step leaves its side out of check
KingSteps(b, ep, king_pos) ==
    {to_pos \in {offset(king_pos, dr, dc) : dr \in {-1, 0, 1}, dc \in {-1, 0, 1}} :
        /\ to_pos # king_pos
        /\ is_valid(to_pos)
        /\ get_piece(b, to_pos).color # get_piece(b, king_pos).color
        /\ \E trial \in {_execute_move_on_board(b, ep, king_pos, to_pos)} :
               ~is_in_check(trial, get_piece(b, king_pos).color)}

IsPromotion(m) ==
    m.piece.piece_type = "pawn"
    /\ m.to_pos[1] = (IF m.piece.color = "white" THEN 7 ELSE 0)

\* the type record m asked for, a queen if it named none
ChosenType(m) ==
    IF m.promotion_piece_type = None THEN "queen" ELSE m.promotion_piece_type

\* the destinations a piece of the given type and of the color to move has
\* from pos on the board: the candidates of that type that leave its side
\* out of check
DestinationsOfType(piece_type, pos) ==
    {to_pos \in Range(PseudoLegalMoves(board, en_passant_target, pos,
                                       Piece(piece_type, current_turn, TRUE))) :
        \E trial \in {_execute_move_on_board(board, en_passant_target, pos, to_pos)} :
            ~is_in_check(trial, current_turn)}

\* C12: after a move that brings a pawn to its farthest rank the piece on
\* the destination has the pawn's color and the chosen type, a queen if none
\* was given; on its owner's next turn, if it is still there, its
\* destinations are those of a piece of that type.
C12_Promotion ==
    LET n == Len(move_history)
    IN  /\ (n >= 1 /\ IsPromotion(move_history[n])) =>
              /\ get_piece(board, move_history[n].to_pos).piece_type
                     = ChosenType(move_history[n])
              /\ get_piece(board, move_history[n].to_pos).color
                     = move_history[n].piece.color
        /\ (/\ n >= 2 /\ IsPromotion(move_history[n - 1])
             /\ move_history[n].to_pos # move_history[n - 1].to_pos) =>
              Range(get_possible_moves(board, current_turn, en_passant_target,
                                       move_history[n - 1].to_pos).moves)
                 = DestinationsOfType(ChosenType(move_history[n - 1]),
                                      move_history[n - 1].to_pos)

\* white has promoted to a knight on g8, black has replied elsewhere, and
\* the knight has destinations
C12_Witness ==
    LET n == Len(move_history)
    IN  /\ n >= 2 /\ IsPromotion(move_history[n - 1])
        /\ move_history[n - 1].promotion_piece_type = "knight"
        /\ move_history[n].to_pos # move_history[n - 1].to_pos
        /\ get_piece(board, <<7, 6>>) = Piece("knight", "white", TRUE)
        /\ <<5, 5>> \in Range(get_possible_moves(board, current_turn, en_passant_target,
                                                  <<7, 6>>).moves)

\* a promotion token that is present and is no PieceType value
UnknownToken(promotion_str) ==
    promotion_str # None /\ ~IsPieceTypeValue(promotion_str)

\* C13: a submission with an unknown promotion token commits no move:
\* neither when it arrives on turn nor when the handler of the other
\* player attempts it as a premove after its broadcast.
C13_UnknownTokenNeverCommits ==
    [][/\ \A p \in Players : \A m \in Submissions(book, Len(move_history)) :
            (UnknownToken(m.promotion) /\ get_player_color(p) = current_turn
                /\ HandleMove(p, m))
                => UNCHANGED gameVars
       /\ \A p \in Players :
            (UnknownToken(premoves[p].promotion) /\ AfterBroadcast(Opponent(p)))
                => UNCHANGED gameVars]_vars

-----------------------------------------------------------------------------
(* Properties of the clock                                                 *)

\* the time a commit charges its mover
Charged(is_premove) ==
    IF is_premove THEN PremovePenalty ELSE now' - last_move_time

Commits == Len(move_history') = Len(move_history) + 1

\* the commit of this step is that of an auto-applied premove
CommitsPremove ==
    \E p \in Players : hpc[p] = "broadcast" /\ hpc'[p] = "premove_broadcast"

\* C15: in every state of the session both clocks are at least 0, and
\* right after a commit made with the clock started the mover's clock is at
\* least INCREMENT_SECONDS
C15_ClockBounds ==
    /\ [](\A color \in Color : time_remaining[color] >= 0)
    /\ [][(Commits /\ (CommitsPremove \/ last_move_time # NoTime))
             => time_remaining'[current_turn] >= INCREMENT_SECONDS]_vars

\* white has committed a move after its whole time had run out, the alarm
\* not having run yet: the floor left it the increment alone
C15_Witness ==
    /\ hpc["player1"] = "broadcast"
    /\ Len(move_history) = 1
    /\ now = STARTING_TIME_SECONDS
    /\ time_remaining["white"] = INCREMENT_SECONDS


\* the alarms that are scheduled and neither cancelled nor fired
LiveAlarms == {t \in DOMAIN tasks : tasks[t].state = "sleeping"}

OnTimeResults == {<<color, "wins on time">> : color \in Color}

\* some player is sent an on-time result in this step
SendsOnTimeResult ==
    \E q \in Players : /\ Len(sent'[q]) > Len(sent[q])
                       /\ sent'[q][Len(sent'[q])] \in OnTimeResults

\* C16: at most one alarm is scheduled and neither cancelled nor fired; a
\* step that schedules an alarm leaves every earlier alarm ended; the step
\* that cancels a sleeping alarm neither zeroes its color's clock nor sends
\* an on-time result, and an ended alarm stays ended
C16_OneLiveAlarm ==
    /\ [](Cardinality(LiveAlarms) <= 1)
    /\ [][/\ Len(tasks') > Len(tasks)
             => /\ Len(tasks') = Len(tasks) + 1
                /\ time_update_task' = Len(tasks')
                /\ \A t \in DOMAIN tasks : tasks'[t].state = "finished"
          /\ \A t \in DOMAIN tasks :
               /\ (tasks[t].state = "sleeping" /\ tasks'[t].state = "finished")
                     => /\ time_remaining'[tasks[t].color] = 0
                             => time_remaining[tasks[t].color] = 0
                        /\ ~SendsOnTimeResult
               /\ tasks[t].state = "finished" => tasks'[t] = tasks[t]]_vars

\* a second alarm has been scheduled after a move, the first one, whose
\* time had come, being cancelled
C16_Witness ==
    /\ Len(tasks) = 2
    /\ tasks[1].state = "finished"
    /\ tasks[1].wake <= now
    /\ tasks[2].state = "sleeping"
    /\ ~game_ended


\* player q has a connection a result can be sent on
Connected(q) == hpc[q] \notin {"closed", "crashed"}

\* C17: when the alarm of a color expires without having been cancelled,
\* that color's clock is set to 0 and game_ended is true, and when the
\* alarm ends each connected player has been sent the result that the
\* opposite color wins on time
C17_ExpiryReported ==
    [][\A t \in DOMAIN tasks :
          /\ AlarmFire(t)
                => /\ time_remaining'[tasks[t].color] = 0
                   /\ game_ended'
          /\ (tasks[t].state = "notify" /\ tasks'[t].state = "finished")
                => \A q \in Players :
                      (Connected(q) /\ Connected(q)')
                          => <<opposite(tasks[t].color), "wins on time">>
                                 \in Range(sent'[q])]_vars


\* the make_move call of the premove attempt for the premove of player q
PremoveCall(q) ==
    [premoves[q] EXCEPT !.promotion = PremovePromotion(premoves[q].promotion)]

\* the handler of player p resumes after the broadcast of its committed
\* regular move, the game is not over and the opponent has a premove
PremoveDue(p) ==
    /\ ~RoomIsGameOver
    /\ premoves[Opponent(p)] # NoPremove
    /\ AfterBroadcast(p)

\* C18: when the handler of a committed regular move finds the game not
\* over and a premove of the opponent pending, the game becomes what one
\* make_move call with that premove leaves, and the opponent's slot is
\* empty afterwards whether the call succeeded or failed
C18_PremoveAttemptedOnce ==
    [][\A p \in Players :
          PremoveDue(p)
              => /\ Game(board', current_turn', move_history', en_passant_target')
                       = RoomMakeMove(PremoveCall(Opponent(p))).game
                 /\ Len(move_history') = Len(move_history) + 1
                       <=> RoomMakeMove(PremoveCall(Opponent(p))).ok
                 /\ premoves'[Opponent(p)] = NoPremove]_vars

\* black's premove has been committed after white's first move
C18_Witness ==
    /\ hpc["player1"] = "premove_broadcast"
    /\ Len(move_history) = 2
    /\ premoves["player2"] = NoPremove



\* the plies this step commits
PliesCommitted == Len(move_history') - Len(move_history)

\* C19: the handling of one move submission commits at most two plies: at
\* most one before its first broadcast and at most one, the opponent's
\* premove, after it; once a premove has been committed the handling
\* returns to receive_text without another make_move call and without
\* touching a premove slot
C19_AtMostTwoPlies ==
    [][\A p \in Players :
          /\ (\E m \in Submissions(book, Len(move_history)) : HandleMove(p, m))
                => /\ PliesCommitted \in {0, 1}
                   /\ hpc'[p] = (IF PliesCommitted = 1 THEN "broadcast" ELSE "recv")
          /\ AfterBroadcast(p)
                => /\ PliesCommitted \in {0, 1}
                   /\ PliesCommitted = 1 <=> hpc'[p] = "premove_broadcast"
                   /\ hpc'[p] \in {"premove_broadcast", "notify", "recv"}
          /\ AfterPremoveBroadcast(p)
                => /\ UNCHANGED <<gameVars, premoves>>
                   /\ hpc'[p] \in {"notify", "recv"}
          /\ NotifySecond(p)
                => /\ UNCHANGED <<gameVars, premoves>>
                   /\ hpc'[p] = "recv"]_vars

\* the handling of white's first move has also committed black's premove,
\* and black has queued another premove during the second broadcast
C19_Witness ==
    /\ hpc["player1"] = "premove_broadcast"
    /\ Len(move_history) = 2
    /\ premoves["player2"] # NoPremove


\* the square m.from holds a piece of player p's color and both squares of
\* m are on the board
OwnPieceOnBoard(p, m) ==
    /\ is_valid(m.from) /\ is_valid(m.to)
    /\ \E i \in DOMAIN board.keys :
          /\ board.keys[i] = m.from
          /\ board.at[m.from[1]][m.from[2]].color = get_player_color(p)

C21_OutOfTurnFrame ==
    [][\A p \in Players : \A m \in Submissions(book, Len(move_history)) :
          (get_player_color(p) # current_turn /\ HandleMove(p, m))
              => /\ UNCHANGED <<gameVars, time_remaining, last_move_time,
                               time_update_task, tasks, game_ended>>
                 /\ premoves'[Opponent(p)] = premoves[Opponent(p)]]_vars

\* before any move, with the clock running, black has queued ...e5
C21_Witness ==
    /\ move_history = <<>>
    /\ premoves["player2"] = Mv(6, 4, 4, 4)
    /\ time_update_task = 1
    /\ tasks[1].state = "sleeping"


\* C22: each player's slot holds one instruction or none; an accepted
\* out-of-turn submission becomes the content of the sender's slot whatever
\* the slot held; cancel_premove empties the sender's slot and changes
\* nothing else, the opponent's slot included
C22_OnePremovePerPlayer ==
    /\ [](\A p \in Players :
            \/ premoves[p] = NoPremove
            \/ /\ DOMAIN premoves[p] = {"from", "to", "promotion"}
               /\ is_valid(premoves[p].from) /\ is_valid(premoves[p].to))
    /\ [][\A p \in Players :
            /\ \A m \in Submissions(book, Len(move_history)) :
                  (/\ get_player_color(p) # current_turn
                   /\ is_valid_premove(board, m.from, m.to, get_player_color(p))
                   /\ HandleMove(p, m))
                      => premoves' = [q \in Players |->
                                         IF q = p THEN m ELSE premoves[q]]
            /\ CancelPremove(p)
                  => /\ premoves' = [q \in Players |->
                                        IF q = p THEN NoPremove ELSE premoves[q]]
                     /\ UNCHANGED <<gameVars, game_ended, time_remaining,
                                    last_move_time, time_update_task, tasks>>]_vars

\* before any move black's slot holds ...e5 with the token 'dragon', one of
\* the two instructions black can queue there one after the other
C22_Witness ==
    /\ move_history = <<>>
    /\ premoves["player2"] = MvP(6, 4, 4, 4, "dragon")
    /\ hpc["player1"] = "recv"


ResignationResults == {<<color, "wins by resignation">> : color \in Color}

\* the resignation results sent so far, as (receiver, index) pairs
ResignationsSent ==
    UNION {{<<q, i>> : i \in {j \in DOMAIN sent[q] : sent[q][j] \in ResignationResults}}
              : q \in Players}

\* C23: whatever the order and interleaving of the two disconnects, at most
\* one resignation result is sent; a disconnect of a player whose match has
\* ended sends nothing; no disconnect ends in an error
C23_DisconnectOnce ==
    /\ [](Cardinality(ResignationsSent) <= 1)
    /\ [](\A p \in Players : hpc[p] # "crashed")
    /\ [][\A p \in Players :
            (Disconnect(p) /\ (game_ended \/ RoomIsGameOver)) => sent' = sent]_vars


\* C24: when a player of a session that is neither over nor ended
\* disconnects, the other player is sent the result that the other
\* player's color wins by resignation, the alarm is cancelled and the
\* terminal flag is set; when the disconnect has finished, the room and
\* both players' mappings are gone and no alarm is scheduled
C24_DisconnectResigns ==
    [][\A p \in Players :
          /\ (Disconnect(p) /\ InRoom(p) /\ ~game_ended /\ ~RoomIsGameOver)
                => /\ sent' = [sent EXCEPT ![Opponent(p)] =
                          Append(@, <<get_player_color(Opponent(p)),
                                      "wins by resignation">>)]
                   /\ LiveAlarms' = {}
                   /\ game_ended'
          /\ DisconnectCleanup(p)
                => /\ ~rooms'
                   /\ \A q \in Players : ~websocket_to_room'[q]
                   /\ LiveAlarms' = {}]_vars


\* two different squares that touch, diagonally included
Adjacent(pos, other) ==
    /\ pos # other
    /\ Abs(pos[1] - other[1]) <= 1
    /\ Abs(pos[2] - other[2]) <= 1

\* C25: no king stands next to a king of the other color, and no
\* destination get_possible_moves gives a king of the side to move is the
\* square of a king of the other color or next to one
C25_KingsApart ==
    /\ \A pos \in Kings(board, "white") : \A other \in Kings(board, "black") :
          ~Adjacent(pos, other)
    /\ \A pos \in Kings(board, current_turn) :
          \A to_pos \in Range(get_possible_moves(board, current_turn,
                                                 en_passant_target, pos).moves) :
             \A other \in Kings(board, opposite(current_turn)) :
                to_pos # other /\ ~Adjacent(to_pos, other)


\* the destinations get_possible_moves gives the piece on pos
Destinations(pos) ==
    get_possible_moves(board, current_turn, en_passant_target, pos).moves

\* C26, as stated: when the side to move is in check, its king has no
\* legal destination exactly when is_checkmate holds
C26_KingStuckIffMate ==
    is_in_check(board, current_turn)
        => \A pos \in Kings(board, current_turn) :
              Destinations(pos) = <<>>
                  <=> is_checkmate(board, current_turn, en_passant_target)

\* C26, amended: when the side to move is in check, is_checkmate holds
\* exactly when no piece of that side, the king included, has a legal
\* destination; so under checkmate the king has none
C26_MateIffNothingMoves ==
    is_in_check(board, current_turn)
        => /\ is_checkmate(board, current_turn, en_passant_target)
                 <=> NoLegalDestination
           /\ is_checkmate(board, current_turn, en_passant_target)
                 => \A pos \in Kings(board, current_turn) : Destinations(pos) = <<>>

\* the side to move is in check and its king has no destination, but
\* another piece can end the check: not checkmate
C26_Witness ==
    /\ is_in_check(board, current_turn)
    /\ \A pos \in Kings(board, current_turn) : Destinations(pos) = <<>>
    /\ ~NoLegalDestination
    /\ ~is_checkmate(board, current_turn, en_passant_target)


-----------------------------------------------------------------------------
(* Properties of the notation                                              *)

\* C27: from_algebraic undoes to_algebraic on each of the 64 squares and
\* to_algebraic undoes from_algebraic on each notation a1..h8; the first
\* character is the letter at the column's offset from 'a' and the second
\* the digit of the row plus 1
C27_NotationRoundTrip ==
    [][/\ ToAlgebraicCall
          => /\ ret'[2] = <<97 + ret[2][2], 48 + ret[2][1] + 1>>
             /\ ret[2] \in Squares => from_algebraic(ret'[2]) = ret[2]
       /\ FromAlgebraicCall
          => /\ ret'[2] = <<ret[2][2] - 48 - 1, ret[2][1] - 97>>
             /\ ret[2] \in Notations => to_algebraic(ret'[2]) = ret[2]]_vars

\* h8, formatted from the Position (7, 7) that was parsed from h8
C27_Witness ==
    /\ ret = <<"str", <<104, 56>>>>
    /\ ticks = 2


-----------------------------------------------------------------------------
(* Properties of the sliding pieces                                        *)

\* the square of the rook, bishop or queen
SliderPos ==
    CHOOSE pos \in Squares : board.at[pos[1]][pos[2]].piece_type \in SlidingTypes

DirectionsOf(piece_type) ==
    IF piece_type = "rook" THEN Range(rook_directions)
    ELSE IF piece_type = "bishop" THEN Range(bishop_directions)
    ELSE Range(rook_directions) \cup Range(bishop_directions)

\* the squares a slider on pos reaches: along each direction every square
\* up to the first piece, that piece's square included if it is of the
\* other color
SlideReach(pos, directions) ==
    {offset(pos, step * dir[1], step * dir[2]) : step \in 1..7, dir \in directions}
        \cap {to_pos \in Squares :
                \E step \in 1..7 : \E dir \in directions :
                   /\ to_pos = offset(pos, step * dir[1], step * dir[2])
                   /\ get_piece(board, to_pos).color # get_piece(board, pos).color
                   /\ \A before \in 1..(step - 1) :
                         get_piece(board, offset(pos, before * dir[1],
                                                 before * dir[2])) = NoPiece}

\* the number of destinations of a piece of the type alone on pos
LoneCount(piece_type, pos) ==
    Len(get_possible_moves(SlidingBoard(piece_type, pos, <<>>, <<>>), "white",
                           None, pos).moves)

\* C28: get_possible_moves gives a rook, bishop or queen each square of
\* its directions up to the first piece, the square of that piece included
\* if it is of the other color, once each; alone on the board a rook has 14
\* destinations, a bishop 13 on d4 and 7 on a corner, and a queen as many
\* as a rook and a bishop on its square together, 27 on d4 and 21 on a1
C28_SlidingMoves ==
    ret # <<>> =>
        LET pos == SliderPos
            piece_type == get_piece(board, pos).piece_type
            moves == ret[1]
        IN  /\ Len(moves) = Cardinality(Range(moves))
            /\ Range(moves) = SlideReach(pos, DirectionsOf(piece_type))
            /\ Len(board.keys) = 1 =>
                  /\ piece_type = "rook" => Len(moves) = 14
                  /\ (piece_type = "bishop" /\ pos = <<3, 3>>) => Len(moves) = 13
                  /\ (piece_type = "bishop" /\ pos \in {0, 7} \X {0, 7})
                        => Len(moves) = 7
                  /\ piece_type = "queen"
                        => /\ Len(moves) = LoneCount("rook", pos) + LoneCount("bishop", pos)
                           /\ pos = <<3, 3>> => Len(moves) = 27
                           /\ pos = <<0, 0>> => Len(moves) = 21

\* the queen on d4 with white pawns on d6 and b4 and black pawns on d7 and
\* f4: it reaches d5 but not d6, and f4 but not g4
C28_Witness ==
    /\ ret # <<>>
    /\ SliderPos = <<3, 3>>
    /\ get_piece(board, <<3, 3>>).piece_type = "queen"
    /\ Len(board.keys) = 5
    /\ <<4, 3>> \in Range(ret[1]) /\ <<5, 3>> \notin Range(ret[1])
    /\ <<3, 5>> \in Range(ret[1]) /\ <<3, 6>> \notin Range(ret[1])


-----------------------------------------------------------------------------
(* Properties of castling                                                  *)

\* the last committed move
LastMove == move_history[Len(move_history)]

\* the last committed move is a castling move
JustCastled == move_history # <<>> /\ LastMove.is_castling

\* the square the rook of the castling move of record m stands on
\* afterwards: the one the king crossed
RookTo(m) == <<m.from_pos[1], (m.from_pos[2] + m.to_pos[2]) \div 2>>

\* the corner the rook of the castling move of record m came from
RookFrom(m) == <<m.from_pos[1], IF m.to_pos[2] > m.from_pos[2] THEN 7 ELSE 0>>

\* C29: right after a castling move has committed, the king and the rook
\* it relocated both have has_moved set
C29_CastlingMarksBoth ==
    JustCastled
        => /\ get_piece(board, LastMove.to_pos).has_moved
           /\ get_piece(board, RookTo(LastMove)).has_moved


\* the Move record a committing make_move call appends
Committed == move_history'[Len(move_history')]

\* make_move commits a king move of two files
KingTwoFilesCommits ==
    /\ Len(move_history') = Len(move_history) + 1
    /\ Committed.piece.piece_type = "king"
    /\ Abs(Committed.to_pos[2] - Committed.from_pos[2]) = 2

IsPieceOf(piece, piece_type, color) ==
    piece.piece_type = piece_type /\ piece.color = color

\* C30: when make_move commits a king move of two files, the rook from the
\* corner on that side ends on the square the king crossed (f-file on the
\* kingside, d-file on the queenside), the corner and the king's origin are
\* empty, the king stands on its destination, the Move record has
\* is_castling true, and no other square of the board changes
C30_CastlingFrame ==
    [][KingTwoFilesCommits =>
        LET m == Committed
            color == m.piece.color
            corner == RookFrom(m)
            crossed == RookTo(m)
        IN  /\ crossed[2] = IF m.to_pos[2] = 6 THEN 5 ELSE 3
            /\ IsPieceOf(get_piece(board, corner), "rook", color)
            /\ IsPieceOf(get_piece(board', crossed), "rook", color)
            /\ IsPieceOf(get_piece(board', m.to_pos), "king", color)
            /\ get_piece(board', corner) = NoPiece
            /\ get_piece(board', m.from_pos) = NoPiece
            /\ m.is_castling
            /\ \A sq \in Squares \ {m.from_pos, m.to_pos, corner, crossed} :
                   get_piece(board', sq) = get_piece(board, sq)]_vars

\* both sides have castled on the queenside
C30_Witness ==
    /\ JustCastled
    /\ LastMove.to_pos = <<7, 2>>
    /\ IsPieceOf(get_piece(board, <<0, 3>>), "rook", "white")
    /\ IsPieceOf(get_piece(board, <<7, 3>>), "rook", "black")


-----------------------------------------------------------------------------
(* Properties of captures                                                  *)

PieceCount(b) == Cardinality({sq \in Squares : get_piece(b, sq) # NoPiece})

\* the square one rank behind the destination, seen from the mover
Behind(m) == offset(m.to_pos, -PawnDirection(m.piece.color), 0)

\* C31: a committed pawn move onto the live en_passant_target removes the
\* enemy pawn one rank behind the target, leaves the capturing pawn on the
\* target and records is_en_passant with that pawn as captured piece; every
\* other committed move records the piece that stood on its destination and
\* changes no square but its origin and destination (castling: and those of
\* the rook);
\* the number of pieces drops by exactly one when the record has a captured
\* piece and is unchanged otherwise
C31_CaptureAccounting ==
    [][Commits =>
        LET m == Committed
            color == m.piece.color
        IN  /\ m.is_en_passant
                   <=> IsEnPassant(get_piece(board, m.from_pos), m.to_pos,
                                   en_passant_target)
            /\ m.is_en_passant
                   => /\ IsPieceOf(get_piece(board, Behind(m)), "pawn", opposite(color))
                      /\ get_piece(board, m.to_pos) = NoPiece
                      /\ m.captured_piece = get_piece(board, Behind(m))
                      /\ get_piece(board', Behind(m)) = NoPiece
                      /\ IsPieceOf(get_piece(board', m.to_pos), "pawn", color)
            /\ ~m.is_en_passant
                   => /\ m.captured_piece = get_piece(board, m.to_pos)
                      /\ \A sq \in Squares \ {m.from_pos, m.to_pos} :
                             \/ get_piece(board', sq) = get_piece(board, sq)
                             \/ m.is_castling /\ sq \in {RookFrom(m), RookTo(m)}
            /\ PieceCount(board')
                   = PieceCount(board) - (IF m.captured_piece # NoPiece THEN 1 ELSE 0)]_vars

\* black has just captured en passant: 3...dxe3 has removed the pawn on e4
C31_Witness ==
    /\ move_history # <<>>
    /\ LastMove.is_en_passant
    /\ LastMove.piece.color = "black"
    /\ LastMove.to_pos = <<2, 4>>
    /\ get_piece(board, <<3, 4>>) = NoPiece
    /\ PieceCount(board) = 31


-----------------------------------------------------------------------------
(* Properties of the queries                                               *)

\* the step is a query: ret' holds the name of the query and its value
QueryStep == Len(ret') = 2

\* C32: get_possible_moves, is_in_check, is_checkmate, is_stalemate and
\* get_game_result leave piece type, color and has_moved of every square,
\* en_passant_target, current_turn and move_history as they were
C32_QueriesLeaveGame ==
    [][QueryStep =>
          /\ \A sq \in Squares : get_piece(board', sq) = get_piece(board, sq)
          /\ en_passant_target' = en_passant_target
          /\ current_turn' = current_turn
          /\ move_history' = move_history]_vars

\* after 1.e4 a6 2.e5 d5 the moves of the pawn on e5 have been asked for:
\* the capture en passant was tried, and the pawn on d5 stands
C32_Witness ==
    /\ book = "enpassant"
    /\ Len(move_history) = 4
    /\ Len(ret) = 2
    /\ ret[1] = "get_possible_moves"
    /\ SeqContains(ret[2], <<5, 3>>)
    /\ IsPieceOf(get_piece(board, <<4, 3>>), "pawn", "black")
    /\ en_passant_target = <<5, 3>>


-----------------------------------------------------------------------------
(* Properties of a rejected premove                                        *)

\* the handler of p attempts the opponent's premove in this step and
\* make_move refuses it
PremoveRejected(p) ==
    PremoveDue(p) /\ ~RoomMakeMove(PremoveCall(Opponent(p))).ok

\* C33: when the premove attempted after a committed move is refused by
\* make_move, the board, the side to move, the history, the en passant
\* target and both clocks are as the opponent's move left them, the alarm
\* started for the premoving player is scheduled with that player's
\* remaining time as its duration, and of the premove slots only the
\* premoving player's changes: it is emptied
C33_RejectedPremoveFrame ==
    [][\A p \in Players :
          PremoveRejected(p)
              => /\ UNCHANGED <<board, current_turn, move_history, en_passant_target>>
                 /\ time_remaining' = time_remaining
                 /\ premoves' = [premoves EXCEPT ![Opponent(p)] = NoPremove]
                 /\ LiveAlarms' = {time_update_task'}
                 /\ tasks'[time_update_task'].color = get_player_color(Opponent(p))
                 /\ tasks'[time_update_task'].wake
                        = now + time_remaining[get_player_color(Opponent(p))]]_vars


-----------------------------------------------------------------------------
(* Properties of queued premoves                                           *)

\* the player who holds the color
PlayerOfColor(color) == IF color = "white" THEN "player1" ELSE "player2"

\* no move handler is between its awaits
HandlersIdle == \A p \in Players : ~MidMoveHandling(p)

\* the room exists and its game is neither over nor ended
NonTerminal == rooms /\ ~game_ended /\ ~RoomIsGameOver

\* C34: whenever no handler is part-way through and the session is not
\* terminal, the premove slot of the player on turn is empty
C34_NoPremoveOnOwnTurn ==
    (NonTerminal /\ HandlersIdle) => premoves[PlayerOfColor(current_turn)] = NoPremove

\* black's premove has been committed at once after white's first move (its
\* clock was charged the premove penalty), the handler has finished, and
\* white is on turn with an empty slot
C34_Witness ==
    /\ NonTerminal /\ HandlersIdle
    /\ Len(move_history) = 2
    /\ time_remaining["black"] = STARTING_TIME_SECONDS - PremovePenalty + INCREMENT_SECONDS
    /\ current_turn = "white"
    /\ premoves = [p \in Players |-> NoPremove]


-----------------------------------------------------------------------------
(* Properties of the alarm of an ended session                             *)

\* every coroutine is at receive_text or has returned, and no alarm task is
\* part-way through its expiry handling
NothingInProgress ==
    /\ \A p \in Players : hpc[p] \in {"recv", "closed", "crashed"}
    /\ \A t \in DOMAIN tasks : tasks[t].state # "notify"

\* C35: whenever game_ended is true and no handler is part-way through, no
\* expiry alarm of the session is scheduled
C35_NoAlarmOnceEnded ==
    (game_ended /\ NothingInProgress) => LiveAlarms = {}


-----------------------------------------------------------------------------
(* Properties of the alarm of a running session                            *)

\* the time that can still pass in this run covers the sleep of alarm t
RunOutlasts(t) ==
    \E d \in TickSteps : tasks[t].wake <= now + (MaxTicks - ticks) * d

\* a move has been committed, its handling is finished, the session is not
\* terminal and color c is to move
AwaitingMove(c) ==
    /\ NonTerminal /\ NothingInProgress
    /\ move_history # <<>>
    /\ current_turn = c

\* the session has ended with color c out of time: its clock is 0 and both
\* players have been sent the win of the other color
LostOnTime(c) ==
    /\ game_ended
    /\ time_remaining[c] = 0
    /\ \A p \in Players : SeqContains(sent[p], <<opposite(c), "wins on time">>)

\* a move has committed and is being handled, or a player has disconnected
MoveOrDisconnect == \E p \in Players : hpc[p] # "recv"

\* C36: in a started session that is not terminal, once the handling of a
\* committed move is finished exactly one alarm is live, for the side to
\* move, due when that side's remaining time has passed since the clock was
\* restarted; and from there, unless a further move commits or a player
\* disconnects, the session ends with that side losing on time
C36_AlarmForSideToMove ==
    /\ [](\A c \in Color :
            AwaitingMove(c)
                => /\ LiveAlarms = {time_update_task}
                   /\ tasks[time_update_task].color = c
                   /\ tasks[time_update_task].wake = last_move_time + time_remaining[c])
    /\ \A c \in Color :
          (AwaitingMove(c) /\ RunOutlasts(time_update_task))
              ~> (LostOnTime(c) \/ MoveOrDisconnect)

\* after 1.f3 the alarm restarted for black has fired: black's clock is 0
\* and both players have been sent white's win on time
C36_Witness ==
    /\ Len(move_history) = 1
    /\ LostOnTime("black")
    /\ Len(tasks) = 2
    /\ tasks[2] = [state |-> "finished", color |-> "black", wake |-> last_move_time + STARTING_TIME_SECONDS]
    /\ \A p \in Players : hpc[p] = "recv"


-----------------------------------------------------------------------------
(* Properties of the pawns                                                 *)

\* the row the pawns of a color start on
StartingRank(color) == IF color = "white" THEN 1 ELSE 6

PawnSquares == {sq \in Squares : get_piece(board, sq).piece_type = "pawn"}

\* the destinations two rows away among the candidates of the pawn on sq
DoubleSteps(sq) ==
    {to_pos \in Range(_get_pawn_moves(board, en_passant_target, sq, get_piece(board, sq))) :
        Abs(to_pos[1] - sq[1]) = 2}

\* C37: every pawn whose has_moved is false stands on the starting rank of
\* its color; a double step is a candidate only for an unmoved pawn on its
\* starting rank, only straight ahead, and only when the square in front
\* and the destination are empty, and it is then the only one
C37_DoubleStepFromStart ==
    \A sq \in PawnSquares :
        LET piece == get_piece(board, sq)
            front == offset(sq, PawnDirection(piece.color), 0)
            double == offset(sq, 2 * PawnDirection(piece.color), 0)
        IN  /\ ~piece.has_moved => sq[1] = StartingRank(piece.color)
            /\ DoubleSteps(sq) # {}
                  => /\ sq[1] = StartingRank(piece.color)
                     /\ ~piece.has_moved
                     /\ DoubleSteps(sq) = {double}
                     /\ get_piece(board, front) = NoPiece
                     /\ get_piece(board, double) = NoPiece
            /\ (sq[1] = StartingRank(piece.color)
                  /\ get_piece(board, front) = NoPiece
                  /\ get_piece(board, double) = NoPiece)
                  => DoubleSteps(sq) = {double}

\* after 1.a3 d5 2.a4 d4 white's pawn on d2 has not moved and d3 is empty,
\* but black's pawn stands on d4: d3 is a destination, d4 is not; the pawn
\* on a4 has moved and has a single step only
C37_Witness ==
    /\ book = "enpassantblack"
    /\ current_turn = "white"
    /\ get_piece(board, <<1, 3>>) = Piece("pawn", "white", FALSE)
    /\ get_piece(board, <<2, 3>>) = NoPiece
    /\ IsPieceOf(get_piece(board, <<3, 3>>), "pawn", "black")
    /\ get_possible_moves(board, current_turn, en_passant_target, <<1, 3>>).moves = <<<<2, 3>>>>
    /\ get_piece(board, <<3, 0>>) = Piece("pawn", "white", TRUE)
    /\ get_possible_moves(board, current_turn, en_passant_target, <<3, 0>>).moves = <<<<4, 0>>>>


-----------------------------------------------------------------------------
(* Properties of the castling test                                         *)

KingSquares == {sq \in Squares : get_piece(board, sq).piece_type = "king"}

\* the destinations two files away among the candidates of the king on sq
CastlingOffers(sq) ==
    {to_pos \in Range(_get_king_moves(board, sq, get_piece(board, sq))) :
        Abs(to_pos[2] - sq[2]) = 2}

\* the corner of the king's row on the side of the destination
CornerFor(sq, to_pos) == <<sq[1], IF to_pos[2] > sq[2] THEN 7 ELSE 0>>

\* the square a king of the color starts on
KingHome(color) == <<IF color = "white" THEN 0 ELSE 7, 4>>

\* C38: whenever a castling destination is a candidate of a king, the king
\* has not moved and stands on the e-file square of its home row, and the
\* piece on the corner of that side is an unmoved rook of the king's color
C38_CastlingOwnRook ==
    \A sq \in KingSquares :
        \A to_pos \in CastlingOffers(sq) :
            LET king == get_piece(board, sq)
            IN  /\ sq = KingHome(king.color)
                /\ ~king.has_moved
                /\ get_piece(board, CornerFor(sq, to_pos))
                       = Piece("rook", king.color, FALSE)

\* after 1.d4 d5 2.Nc3 Nc6 3.Bf4 Bf5 4.Qd2 Qd7 5.O-O-O the king on e8 may go
\* to c8: the rook on a8 is black's and unmoved; white's castled rook on
\* d1 still has has_moved false, but stands on no corner
C38_Witness ==
    /\ book = "longcastle"
    /\ Len(move_history) = 9
    /\ CastlingOffers(<<7, 4>>) = {<<7, 2>>}
    /\ SeqContains(get_possible_moves(board, current_turn, en_passant_target,
                                      <<7, 4>>).moves, <<7, 2>>)
    /\ get_piece(board, <<0, 3>>) = Piece("rook", "white", FALSE)


-----------------------------------------------------------------------------
(* Properties of the lobby                                                 *)

\* the coroutine of c calls try_create_room in this step
TryCreateRoomCalled(c) ==
    Greeted(c) \/ (websocket_to_room[c] = NoRoom /\ SetName(c))

IsOpen(c) == client_state[c] = CONNECTED

\* C39: try_create_room creates no room with a connection that is not
\* open: with fewer than two connections in the queue it changes nothing;
\* when one of the two at the head is closed no room is created, the
\* closed ones are gone from the queue and the open one is back at its
\* head; when both are open, one room is created with the first as
\* player1 (white) and the second as player2 (black), both are mapped to
\* it and both have left the queue
C39_RoomsOfOpenConnections ==
    [][\A c \in WebSockets :
          TryCreateRoomCalled(c)
              => IF Len(queue) < 2
                 THEN UNCHANGED <<queue, rooms, websocket_to_room>>
                 ELSE LET first == queue[1]
                          second == queue[2]
                          rest == SubSeq(queue, 3, Len(queue))
                      IN  IF IsOpen(first) /\ IsOpen(second)
                          THEN /\ queue' = rest
                               /\ \E room \in rooms' \ rooms :
                                     /\ rooms' = rooms \cup {room}
                                     /\ \A r \in rooms : r.id # room.id
                                     /\ room.player1 = first
                                     /\ room.player2 = second
                                     /\ RoomPlayerColor(room, first) = "white"
                                     /\ RoomPlayerColor(room, second) = "black"
                                     /\ websocket_to_room'
                                            = [websocket_to_room EXCEPT
                                                  ![first] = room.id,
                                                  ![second] = room.id]
                          ELSE /\ UNCHANGED <<rooms, websocket_to_room>>
                               /\ queue' = (IF IsOpen(first) THEN <<first>>
                                            ELSE IF IsOpen(second) THEN <<second>>
                                            ELSE <<>>) \o rest]_vars

\* a connection that was no longer open has been dropped from the queue by
\* try_create_room (its coroutine never ran disconnect), and the two other
\* connections have been paired afterwards
C39_Witness ==
    \E c \in WebSockets :
        /\ hpc[c] \in {"recv", "crashed"}
        /\ ~IsOpen(c)
        /\ ~SeqContains(queue, c)
        /\ websocket_to_room[c] = NoRoom
        /\ uuids = 1
        /\ \E room \in rooms : {room.player1, room.player2} = WebSockets \ {c}


\* C40: no connection is both in the waiting queue and mapped to a room,
\* no connection is in the queue twice, every room has two distinct
\* players that are both mapped to it, and every mapping of a connection
\* points to a room that exists
C40_LobbyConsistent ==
    /\ \A c \in WebSockets :
          ~(SeqContains(queue, c) /\ websocket_to_room[c] # NoRoom)
    /\ \A i, j \in 1..Len(queue) : queue[i] = queue[j] => i = j
    /\ \A room \in rooms :
          /\ room.player1 # room.player2
          /\ websocket_to_room[room.player1] = room.id
          /\ websocket_to_room[room.player2] = room.id
    /\ \A c \in WebSockets :
          websocket_to_room[c] # NoRoom
              => \E room \in rooms : room.id = websocket_to_room[c]

\* the room of two connections has been cleaned up by a disconnect while a
\* third connection, which has sent its name, waits in the queue
C40_Witness ==
    /\ uuids = 1
    /\ rooms = {}
    /\ Len(queue) = 1
    /\ queue[1] \in pending_names
    /\ \E c \in WebSockets :
          /\ hpc[c] = "closed"
          /\ websocket_to_room[c] = NoRoom
          /\ ~SeqContains(queue, c)
=============================================================================
